---- MODULE Spec2Model ----
(***************************************************************************)
(* The call session relay of the inspection voice bot (src/mainn.py): the  *)
(* session store call_data, the webhook that creates a session, the media  *)
(* socket handler with its two pumps (receive_from_plivo, and the          *)
(* "async for" loop feeding receive_from_openai), the tool dispatcher and  *)
(* after_call_hangup.                                                      *)
(*                                                                         *)
(* asyncio is cooperative: a task is interleaved with another only at an   *)
(* await that suspends.  after_call_hangup contains no await, so it is one *)
(* atomic step wherever it is called.  One handled frame or event is one   *)
(* action.                                                                 *)
(***************************************************************************)
EXTENDS Integers, Sequences, FiniteSets, TLC

(***************************************************************************)
(* Bounds of the model.                                                    *)
(***************************************************************************)
MaxAiEvents == 3
MaxFrames == 2
MaxSharedAiEvents == 1
MaxSharedFrames == 1

Calls == {"c1", "c2"}

(***************************************************************************)
(* Values.  A text is a sequence of words, so that concatenation order and *)
(* substring search are observable.                                        *)
(***************************************************************************)
SYSTEM_MESSAGE == "SYSTEM_MESSAGE"
NEW_USER_SYSTEM_MESSAGE == "NEW_USER_SYSTEM_MESSAGE"
PLACEHOLDER_EMAIL == "customer@example.com"
Phone == "+911"
ProfileEmail == "user@mail"

NoDetails == [status |-> "none", email |-> ""]

VARIABLES
    env,            \* what the outside world sends in this behaviour (never changes)
    stalled,        \* the call whose handler is inside a collaborator call, or "none"
    call_data,      \* the session store: a function from live call ids to sessions
    notified,       \* calls for which the webhook has run
    hm_pc,          \* position of handle_message, per call
    pp_pc,          \* position of the receive_from_plivo task, per call
    openai_ws,      \* the AI-session socket: "none", "open", "closed", "failed"
    plivo_ws,       \* the telephony socket: [open, stream_id]
    to_ai,          \* messages delivered to the AI session, in order
    to_plivo,       \* frames sent to the telephony socket, in order
    ai_events,      \* AI-session events handed to receive_from_openai, in order
    frames,         \* the frames the telephony pump has taken, in order
    ext,            \* collaborator invocations, in order (all calls)
    hangups,        \* per call: invocations of after_call_hangup
    body_runs,      \* per call: runs of the summarize-and-deliver body
    deletes         \* per call: executions of "del call_data[call_uuid]"

vars == <<env, stalled, call_data, notified, hm_pc, pp_pc, openai_ws, plivo_ws, to_ai,
          to_plivo, ai_events, frames, ext, hangups, body_runs, deletes>>

(***************************************************************************)
(* The session record of home() and handle_message().                      *)
(***************************************************************************)
NewSession(caller, exists, details, sysmsg) ==
    [caller_number |-> caller,
     transcriptions |-> <<>>,
     function_calls |-> <<>>,
     assistant_responses |-> <<>>,
     appointments |-> <<>>,
     user_exists |-> exists,
     user_details |-> details,
     user_role_set |-> FALSE,
     system_message |-> sysmsg]

\* Mutant of Delete: "del call_data[call_uuid]" lost.
DeleteNothing(store, c) == store

Delete(store, c) == [k \in DOMAIN store \ {c} |-> store[k]]

Put(store, c, s) == [k \in DOMAIN store \cup {c} |-> IF k = c THEN s ELSE store[k]]

\* One collaborator invocation: the function, the call it served, its
\* argument and what it returned.
Ext(fn, c, arg, ret) == [fn |-> fn, call |-> c, arg |-> arg, ret |-> ret]

Bump(f, c) == [f EXCEPT ![c] = @ + 1]

(***************************************************************************)
(* after_call_hangup.  The outcomes of its collaborators are its inputs:   *)
(* render = "raise" is an exception raised inside the try block before the *)
(* summary is generated, link = "none" is upload_text_to_pdf_and_get_short_*)
(* url returning None, send = "raise" is the delivery call raising.        *)
(***************************************************************************)
Outcomes ==
    [render : {"ok", "raise"}, link : {"url", "none"}, send : {"ok", "raise"}]

\* Mutant of NothingRecorded: a session holding an appointment is not empty.
NothingRecordedNorBooked(info) ==
    /\ info.transcriptions = <<>>
    /\ info.function_calls = <<>>
    /\ info.assistant_responses = <<>>
    /\ info.appointments = <<>>

\* "not transcriptions and not function_calls and not assistant_responses"
NothingRecorded(info) ==
    /\ info.transcriptions = <<>>
    /\ info.function_calls = <<>>
    /\ info.assistant_responses = <<>>

\* time.time(): the clock read while the n-th AI event of the call is
\* handled is n; post-call processing reads it after every event handled.
Now(c) == Len(ai_events[c]) + 1

\* Lines 599-638: the events of the conversation, in the order they are
\* collected; a user message is stamped with the time of the rendering.
ConversationEvent(type, timestamp, item_id, data) ==
    [type |-> type, timestamp |-> timestamp, item_id |-> item_id, data |-> data]

conversation_events(info, now) ==
    [i \in 1..Len(info.transcriptions) |->
        ConversationEvent("user_message", now, info.transcriptions[i].item_id,
                          info.transcriptions[i])] \o
    [i \in 1..Len(info.assistant_responses) |->
        ConversationEvent("assistant_message", info.assistant_responses[i].timestamp,
                          info.assistant_responses[i].item_id,
                          info.assistant_responses[i])] \o
    [i \in 1..Len(info.function_calls) |->
        ConversationEvent("function_call", info.function_calls[i].timestamp,
                          info.function_calls[i].item_id, info.function_calls[i])] \o
    [i \in 1..Len(info.appointments) |->
        ConversationEvent("appointment", info.appointments[i].timestamp,
                          info.appointments[i].item_id, info.appointments[i])]

\* Mutant of InsertByTimestamp: the events stay in collection order.
InsertLast(sorted, e) == Append(sorted, e)

\* list.sort(key=timestamp): stable, so events with equal timestamps keep
\* the order in which they were collected.
RECURSIVE InsertByTimestamp(_, _)
InsertByTimestamp(sorted, e) ==
    IF sorted = <<>> THEN <<e>>
    ELSE IF sorted[Len(sorted)].timestamp <= e.timestamp
         THEN Append(sorted, e)
         ELSE Append(InsertByTimestamp(SubSeq(sorted, 1, Len(sorted) - 1), e),
                     sorted[Len(sorted)])

RECURSIVE SortByTimestamp(_)
SortByTimestamp(events) ==
    IF events = <<>> THEN <<>>
    ELSE InsertByTimestamp(SortByTimestamp(SubSeq(events, 1, Len(events) - 1)),
                           events[Len(events)])

\* Lines 650-676: the section an event is rendered as; a function-call
\* record of any other type renders nothing.
Section(heading, fields) == [section |-> heading, fields |-> fields]

\* Mutant of Booked: every appointment counts as booked.
BookedAlways(appt) == TRUE

Booked(appt) == ~appt.result.error

SectionsOf(event) ==
    CASE event.type = "user_message" ->
            <<Section("User", [text |-> event.data.text])>>
      [] event.type = "assistant_message" ->
            <<Section("Assistant", [text |-> event.data.text])>>
      [] event.type = "function_call" ->
            IF event.data.type = "search_product_database"
            THEN <<Section("DATABASE QUERY",
                           [query |-> event.data.args.query,
                            result |-> event.data.result])>>
            ELSE IF event.data.type = "get_available_slots"
                 THEN <<Section("CALENDAR QUERY", [call_type |-> event.data.type])>>
            ELSE IF event.data.type = "check_slot_availability"
                 THEN <<Section("CALENDAR QUERY",
                                [call_type |-> event.data.type,
                                 proposed_time |-> event.data.args.proposed_time,
                                 available |-> event.data.result.is_available])>>
                 ELSE <<>>
      [] event.type = "appointment" ->
            <<Section("APPOINTMENT BOOKING",
                      [time |-> event.data.proposed_time,
                       booked |-> Booked(event.data)])>>

RECURSIVE Sections(_)
Sections(events) ==
    IF events = <<>> THEN <<>>
    ELSE SectionsOf(events[1]) \o Sections(Tail(events))

\* Lines 678-686: the closing summary of the appointments that were booked.
AppointmentSummary(events) ==
    LET booked == SelectSeq(events,
                            LAMBDA e : e.type = "appointment" /\ Booked(e.data))
    IN  IF booked = <<>> THEN <<>>
        ELSE <<Section("APPOINTMENT SUMMARY",
                       [times |-> [i \in 1..Len(booked) |->
                                     booked[i].data.proposed_time]])>>

transcript_text(info, now) ==
    LET events == SortByTimestamp(conversation_events(info, now))
    IN  Sections(events) \o AppointmentSummary(events)

\* "if caller_number and caller_number != 'unknown'"
\* Mutant of CanDeliver: the caller number is not looked at.
CanDeliverAnyone(caller_number) == TRUE

CanDeliver(caller_number) ==
    caller_number # "" /\ caller_number # "unknown"

\* Mutant of Deliveries: a templated delivery that fails is followed by the
\* plain-text delivery.
DeliveriesWithFallback(c, info, o) ==
    IF o.render = "raise" THEN <<>>
    ELSE <<Ext("generate_inquiry_invoice", c, transcript_text(info, Now(c)),
               "invoice")>> \o
         (IF CanDeliver(info.caller_number)
          THEN <<Ext("upload_text_to_pdf_and_get_short_url", c, "invoice", o.link)>> \o
               (IF o.link = "url"
                THEN <<Ext("send_templated_message", c, info.caller_number, o.send)>> \o
                     (IF o.send = "raise"
                      THEN <<Ext("send_simple_whatsapp", c, info.caller_number, "ok")>>
                      ELSE <<>>)
                ELSE <<Ext("send_simple_whatsapp", c, info.caller_number, o.send)>>)
          ELSE <<>>)

\* The collaborator invocations of the summarize-and-deliver body.
Deliveries(c, info, o) ==
    IF o.render = "raise" THEN <<>>
    ELSE <<Ext("generate_inquiry_invoice", c, transcript_text(info, Now(c)),
               "invoice")>> \o
         (IF CanDeliver(info.caller_number)
          THEN <<Ext("upload_text_to_pdf_and_get_short_url", c, "invoice", o.link)>> \o
               (IF o.link = "url"
                THEN <<Ext("send_templated_message", c, info.caller_number, o.send)>>
                ELSE <<Ext("send_simple_whatsapp", c, info.caller_number, o.send)>>)
          ELSE <<>>)

\* Mutant of Cleanup: no "finally" clause.
CleanupSkipped(store, c) == store

\* The "finally" clause: the record is deleted if it is still there.
Cleanup(store, c) == IF c \in DOMAIN store THEN Delete(store, c) ELSE store

after_call_hangup(c, o) ==
    /\ hangups' = Bump(hangups, c)
    /\ IF c \notin DOMAIN call_data
       THEN UNCHANGED <<call_data, ext, body_runs, deletes>>
       ELSE LET call_info == call_data[c] IN
            IF NothingRecorded(call_info)
            THEN /\ call_data' = Cleanup(Delete(call_data, c), c)
                 /\ deletes' = Bump(deletes, c)
                 /\ UNCHANGED <<ext, body_runs>>
            ELSE /\ body_runs' = Bump(body_runs, c)
                 /\ ext' = ext \o Deliveries(c, call_info, o)
                 /\ call_data' = Cleanup(call_data, c)
                 /\ deletes' = Bump(deletes, c)

(***************************************************************************)
(* Messages on the two sockets.                                            *)
(***************************************************************************)
AiMsg(type, item_id, call_id, body) ==
    [type |-> type, item_id |-> item_id, call_id |-> call_id, body |-> body]

PlivoFrame(event, stream_id, payload) ==
    [event |-> event, stream_id |-> stream_id, payload |-> payload]

StreamIds == {"s1"}
Payloads == {"p1", "p2"}

\* Mutant of Send: the message overtakes the ones sent before it.
SendInFront(log, c, msg) == [log EXCEPT ![c] = <<msg>> \o @]

Send(log, c, msg) == [log EXCEPT ![c] = Append(@, msg)]

(***************************************************************************)
(* The outside world of one behaviour: which callers the directory knows,  *)
(* which AI-session events the call sees (with the utterance ids and final *)
(* transcripts they carry) and whether the telephony side sends media and  *)
(* start frames.  Every behaviour runs the whole relay; the environments   *)
(* only bound its inputs, and together they cover every input.             *)
(***************************************************************************)
ItemIds == {"i1", "i2"}
Transcripts == {<<"hello">>, <<"Contractor">>, <<"customer">>,
                <<"customer", "contractor">>}

NewCaller == [number |-> Phone, exists |-> FALSE, details |-> NoDetails]
KnownCaller == [number |-> Phone, exists |-> TRUE,
                details |-> [status |-> "success", email |-> ProfileEmail]]
IncompleteCaller == [number |-> Phone, exists |-> TRUE,
                     details |-> [status |-> "incomplete", email |-> ""]]
\* A directory entry whose email is still the "pending_" one of an unfinished
\* registration: get_user_details reports it as incomplete.
PendingCaller == [number |-> Phone, exists |-> TRUE,
                  details |-> [status |-> "incomplete", email |-> "pending_1"]]
AnonymousCaller == [number |-> "unknown", exists |-> FALSE, details |-> NoDetails]

Callers == {NewCaller, KnownCaller, IncompleteCaller, PendingCaller,
            AnonymousCaller}

Triggers == {"ai_connect_fails", "telephony_disconnect", "ai_close_ok",
             "ai_close_error", "hangup", "pump_connection_closed", "pump_error"}

\* The times a caller may propose for an appointment.
Times == {"t1", "t2"}

AllGoesWell == [render |-> "ok", link |-> "url", send |-> "ok"]

Environment(callers, types, items, transcripts, sends_frames, triggers, outcomes) ==
    [calls |-> {"c1"}, callers |-> callers, types |-> types, items |-> items,
     transcripts |-> transcripts, frames |-> sends_frames,
     triggers |-> triggers, outcomes |-> outcomes, stalls |-> FALSE,
     times |-> {"t1"}, max_events |-> MaxAiEvents, max_frames |-> MaxFrames]

\* A known caller who proposes several times; some bookings fail.
SeveralTimes ==
    [Environment({KnownCaller}, {"check_slot_availability"},
                 {"i1"}, {}, FALSE, {"hangup"}, {AllGoesWell})
        EXCEPT !.times = Times]

\* Two calls served by the same process, each with a tool call and media
\* frames, where a collaborator may take arbitrarily long to return.
TwoCalls ==
    [Environment({KnownCaller}, {"search_product_database"}, {"i1"}, {}, TRUE,
                 {}, {AllGoesWell})
        EXCEPT !.calls = Calls, !.stalls = TRUE,
               !.max_events = MaxSharedAiEvents, !.max_frames = MaxSharedFrames]

\* Two calls served by the same process whose callers propose the same time.
TwoBookings ==
    [Environment({KnownCaller}, {"check_slot_availability"}, {"i1"}, {}, FALSE,
                 {}, {AllGoesWell})
        EXCEPT !.calls = Calls, !.stalls = TRUE,
               !.max_events = MaxSharedAiEvents]

Environments ==
    { Environment(Callers, {"response.text.delta"}, {"i1"}, {}, FALSE,
                  Triggers, Outcomes),
      Environment({KnownCaller}, {"response.text.delta"}, ItemIds, {}, FALSE,
                  {"hangup"}, {AllGoesWell}),
      Environment({KnownCaller},
                  {"transcription.delta", "transcription.completed"},
                  ItemIds, {<<"hello">>, <<"customer">>}, FALSE,
                  {"hangup"}, {AllGoesWell}),
      Environment({NewCaller, KnownCaller}, {"transcription.completed"},
                  {"i1"}, Transcripts, FALSE,
                  {"hangup"}, {AllGoesWell}),
      Environment({KnownCaller},
                  {"search_product_database", "get_available_slots", "other"},
                  {"i1"}, {}, FALSE,
                  {"hangup", "pump_error"}, {AllGoesWell}),
      Environment({NewCaller, KnownCaller, IncompleteCaller, PendingCaller},
                  {"check_slot_availability", "book_appointment"},
                  {"i1"}, {}, FALSE,
                  {"pump_error"}, {AllGoesWell}),
      Environment({NewCaller},
                  {"transcription.completed", "check_slot_availability"},
                  {"i1"}, {<<"Contractor">>}, FALSE,
                  {"hangup"}, {AllGoesWell}),
      Environment({KnownCaller},
                  {"session.updated", "error", "response.audio.delta",
                   "speech_started", "malformed"},
                  {"i1"}, {}, TRUE,
                  {"hangup", "pump_error"}, {AllGoesWell}),
      Environment({KnownCaller}, {}, {"i1"}, {}, TRUE,
                  {"ai_close_ok", "ai_close_error"}, {AllGoesWell}),
      Environment({KnownCaller},
                  {"transcription.completed", "response.text.delta"},
                  ItemIds, {<<"hello">>, <<"customer">>}, FALSE,
                  {"hangup"}, {AllGoesWell}),
      SeveralTimes,
      TwoCalls,
      TwoBookings }

Happens(trigger) == trigger \in env.triggers

(***************************************************************************)
(* The event loop.  Every handler is a coroutine of one event loop, and    *)
(* the collaborators (does_number_exist, add_phone_with_role, the          *)
(* scheduling functions, generate_inquiry_invoice, the delivery functions, *)
(* and search_product_database, an "async def" without an await in it) are *)
(* called synchronously: from the call to the return no other coroutine    *)
(* runs.  stalled is the call whose handler is inside a collaborator call  *)
(* that has not returned yet.                                              *)
(***************************************************************************)
EventLoopFree == stalled = "none"

\* The collaborator called for c returns (at once, or after a stall).
Returns(c) == stalled \in {"none", c}

Init ==
    /\ env \in Environments
    /\ stalled = "none"
    /\ call_data = << >>
    /\ notified = {}
    /\ hm_pc = [c \in Calls |-> "idle"]
    /\ pp_pc = [c \in Calls |-> "none"]
    /\ openai_ws = [c \in Calls |-> "none"]
    /\ plivo_ws = [c \in Calls |-> [open |-> FALSE, stream_id |-> "unset"]]
    /\ to_ai = [c \in Calls |-> <<>>]
    /\ to_plivo = [c \in Calls |-> <<>>]
    /\ ai_events = [c \in Calls |-> <<>>]
    /\ frames = [c \in Calls |-> <<>>]
    /\ ext = <<>>
    /\ hangups = [c \in Calls |-> 0]
    /\ body_runs = [c \in Calls |-> 0]
    /\ deletes = [c \in Calls |-> 0]

(***************************************************************************)
(* home(): the inbound-call webhook.  The telephony platform notifies a    *)
(* call once, before it opens the media stream the response points to.     *)
(***************************************************************************)
\* Mutant of SystemMessageFor: every caller gets the standard instructions.
SystemMessageStandard(user_exists) == SYSTEM_MESSAGE

SystemMessageFor(user_exists) ==
    IF user_exists THEN SYSTEM_MESSAGE ELSE NEW_USER_SYSTEM_MESSAGE

Webhook(c) ==
    /\ EventLoopFree
    /\ c \in env.calls
    /\ c \notin notified
    /\ hm_pc[c] = "idle"
    /\ \E who \in env.callers :
          call_data' = Put(call_data, c,
                           NewSession(who.number, who.exists, who.details,
                                      SystemMessageFor(who.exists)))
    /\ notified' = notified \cup {c}
    /\ UNCHANGED <<env, stalled, hm_pc, pp_pc, openai_ws, plivo_ws, to_ai, to_plivo,
                   ai_events, frames, ext, hangups, body_runs, deletes>>

(***************************************************************************)
(* handle_message(): the media socket connects; a missing record is        *)
(* synthesized; the handler then awaits the AI-session connection.         *)
(***************************************************************************)
DefaultSession == NewSession("unknown", FALSE, NoDetails, NEW_USER_SYSTEM_MESSAGE)

\* Mutant of EnsureSession: the record is written without the membership test.
EnsureSessionAnew(store, c) == Put(store, c, DefaultSession)

EnsureSession(store, c) ==
    IF c \notin DOMAIN store THEN Put(store, c, DefaultSession) ELSE store

MediaConnect(c) ==
    /\ EventLoopFree
    /\ c \in env.calls
    /\ hm_pc[c] = "idle"
    /\ call_data' = EnsureSession(call_data, c)
    /\ hm_pc' = [hm_pc EXCEPT ![c] = "connecting"]
    /\ plivo_ws' = [plivo_ws EXCEPT ![c].open = TRUE]
    /\ UNCHANGED <<env, stalled, notified, pp_pc, openai_ws, to_ai, to_plivo, ai_events,
                   frames, ext, hangups, body_runs, deletes>>

\* Mutant of SessionUpdate: the standard instructions for every caller.
SessionUpdateStandard(store, c) == AiMsg("session.update", "", "", SYSTEM_MESSAGE)

\* send_session_update: the instructions are the session's active ones.
SessionUpdate(store, c) ==
    AiMsg("session.update", "", "",
          IF c \in DOMAIN store THEN store[c].system_message ELSE SYSTEM_MESSAGE)

\* websockets.connect succeeds, the configuration is sent, the telephony
\* pump is started and the handler enters its "async for".
OpenAiConnected(c) ==
    /\ EventLoopFree
    /\ hm_pc[c] = "connecting"
    /\ openai_ws' = [openai_ws EXCEPT ![c] = "open"]
    /\ to_ai' = Send(to_ai, c, SessionUpdate(call_data, c))
    /\ pp_pc' = [pp_pc EXCEPT ![c] = "running"]
    /\ hm_pc' = [hm_pc EXCEPT ![c] = "pumping"]
    /\ UNCHANGED <<env, stalled, call_data, notified, plivo_ws, to_plivo, ai_events, frames,
                   ext, hangups, body_runs, deletes>>

\* When the handler returns, the framework closes the media socket it served.
HandlerReturned(ws, c) == [ws EXCEPT ![c].open = FALSE]

\* websockets.connect (or the first send) raises: "except Exception".
OpenAiConnectFails(c) ==
    /\ EventLoopFree
    /\ Happens("ai_connect_fails")
    /\ hm_pc[c] = "connecting"
    /\ \E o \in env.outcomes : after_call_hangup(c, o)
    /\ hm_pc' = [hm_pc EXCEPT ![c] = "done"]
    /\ plivo_ws' = HandlerReturned(plivo_ws, c)
    /\ UNCHANGED <<env, stalled, notified, pp_pc, openai_ws, to_ai, to_plivo,
                   ai_events, frames>>

\* The telephony socket disconnects: the framework cancels the handler task
\* ("except asyncio.CancelledError"); leaving "async with" closes the AI
\* socket.  The pump task is cancelled with the handler only when the handler
\* is awaiting it; otherwise it stays blocked on a socket that delivers no
\* more frames.
TelephonyDisconnect(c) ==
    /\ EventLoopFree
    /\ Happens("telephony_disconnect")
    /\ hm_pc[c] \in {"connecting", "pumping", "joining"}
    /\ plivo_ws[c].open
    /\ \E o \in env.outcomes : after_call_hangup(c, o)
    /\ hm_pc' = [hm_pc EXCEPT ![c] = "done"]
    /\ plivo_ws' = HandlerReturned(plivo_ws, c)
    /\ openai_ws' = [openai_ws EXCEPT ![c] = IF @ = "open" THEN "closed" ELSE @]
    /\ pp_pc' = [pp_pc EXCEPT ![c] = IF hm_pc[c] = "joining" THEN "done" ELSE @]
    /\ UNCHANGED <<env, stalled, notified, to_ai, to_plivo, ai_events, frames>>

\* The AI session closes its socket: cleanly, or abnormally.
AiCloseOk(c) ==
    /\ EventLoopFree
    /\ Happens("ai_close_ok")
    /\ openai_ws[c] = "open"
    /\ openai_ws' = [openai_ws EXCEPT ![c] = "closed"]
    /\ UNCHANGED <<env, stalled, call_data, notified, hm_pc, pp_pc, plivo_ws, to_ai, to_plivo,
                   ai_events, frames, ext, hangups, body_runs, deletes>>

AiCloseError(c) ==
    /\ EventLoopFree
    /\ Happens("ai_close_error")
    /\ openai_ws[c] = "open"
    /\ openai_ws' = [openai_ws EXCEPT ![c] = "failed"]
    /\ UNCHANGED <<env, stalled, call_data, notified, hm_pc, pp_pc, plivo_ws, to_ai, to_plivo,
                   ai_events, frames, ext, hangups, body_runs, deletes>>

\* "async for message in openai_ws" ends on a clean close: the handler goes
\* on to "await receive_task".
HmLoopEnds(c) ==
    /\ EventLoopFree
    /\ hm_pc[c] = "pumping"
    /\ openai_ws[c] = "closed"
    /\ hm_pc' = [hm_pc EXCEPT ![c] = "joining"]
    /\ UNCHANGED <<env, stalled, call_data, notified, pp_pc, openai_ws, plivo_ws, to_ai,
                   to_plivo, ai_events, frames, ext, hangups, body_runs, deletes>>

\* "async for" raises on an abnormal close: "except websockets.ConnectionClosed".
HmConnClosed(c) ==
    /\ EventLoopFree
    /\ hm_pc[c] = "pumping"
    /\ openai_ws[c] = "failed"
    /\ \E o \in env.outcomes : after_call_hangup(c, o)
    /\ hm_pc' = [hm_pc EXCEPT ![c] = "done"]
    /\ plivo_ws' = HandlerReturned(plivo_ws, c)
    /\ UNCHANGED <<env, stalled, notified, pp_pc, openai_ws, to_ai, to_plivo,
                   ai_events, frames>>

\* "await receive_task" returns: the handler returns normally.
HmJoin(c) ==
    /\ EventLoopFree
    /\ hm_pc[c] = "joining"
    /\ pp_pc[c] = "done"
    /\ hm_pc' = [hm_pc EXCEPT ![c] = "done"]
    /\ plivo_ws' = HandlerReturned(plivo_ws, c)
    /\ UNCHANGED <<env, stalled, call_data, notified, pp_pc, openai_ws, to_ai,
                   to_plivo, ai_events, frames, ext, hangups, body_runs, deletes>>

(***************************************************************************)
(* receive_from_plivo(): the telephony pump.                               *)
(***************************************************************************)
PumpReceives(c) == pp_pc[c] = "running" /\ plivo_ws[c].open

\* The frames the pump has taken from the telephony socket, in arrival order.
Received(log, c, frame) == [log EXCEPT ![c] = Append(@, frame)]

\* Mutant of ForwardMedia: the frame is forwarded whatever the socket's state.
ForwardMediaAlways(log, c, payload, ws) ==
    Send(log, c, AiMsg("input_audio_buffer.append", "", "", payload))

\* A media frame: forwarded if the AI socket is open, dropped otherwise.
ForwardMedia(log, c, payload, ws) ==
    IF ws = "open"
    THEN Send(log, c, AiMsg("input_audio_buffer.append", "", "", payload))
    ELSE log

PlivoMedia(c) ==
    /\ EventLoopFree
    /\ PumpReceives(c)
    /\ env.frames
    /\ Len(frames[c]) < env.max_frames
    /\ \E p \in Payloads :
          /\ to_ai' = ForwardMedia(to_ai, c, p, openai_ws[c])
          /\ frames' = Received(frames, c, PlivoFrame("media", "", p))
    /\ UNCHANGED <<env, stalled, call_data, notified, hm_pc, pp_pc, openai_ws, plivo_ws,
                   to_plivo, ai_events, ext, hangups, body_runs, deletes>>

\* A start frame: the stream identifier is recorded on the socket object.
PlivoStart(c) ==
    /\ EventLoopFree
    /\ PumpReceives(c)
    /\ env.frames
    /\ Len(frames[c]) < env.max_frames
    /\ \E sid \in StreamIds :
          /\ plivo_ws' = [plivo_ws EXCEPT ![c].stream_id = sid]
          /\ frames' = Received(frames, c, PlivoFrame("start", sid, ""))
    /\ UNCHANGED <<env, stalled, call_data, notified, hm_pc, pp_pc, openai_ws, to_ai,
                   to_plivo, ai_events, ext, hangups, body_runs, deletes>>

\* A hangup frame: post-call processing, then (next step) the AI socket is
\* closed and the loop is left.
PlivoHangup(c) ==
    /\ EventLoopFree
    /\ Happens("hangup")
    /\ PumpReceives(c)
    /\ frames' = Received(frames, c, PlivoFrame("hangup", "", ""))
    /\ \E o \in env.outcomes : after_call_hangup(c, o)
    /\ pp_pc' = [pp_pc EXCEPT ![c] = "closing"]
    /\ UNCHANGED <<env, stalled, notified, hm_pc, openai_ws, plivo_ws, to_ai, to_plivo,
                   ai_events>>

\* "except websockets.ConnectionClosed" in the pump: the same two steps.
PlivoConnClosed(c) ==
    /\ EventLoopFree
    /\ Happens("pump_connection_closed")
    /\ pp_pc[c] = "running"
    /\ \E o \in env.outcomes : after_call_hangup(c, o)
    /\ pp_pc' = [pp_pc EXCEPT ![c] = "closing"]
    /\ UNCHANGED <<env, stalled, notified, hm_pc, openai_ws, plivo_ws, to_ai, to_plivo,
                   ai_events, frames>>

\* "if openai_ws.open: await openai_ws.close()", then the pump ends.
\* Mutant of CloseIfOpen: the socket is left as it is.
LeaveOpen(ws) == ws

CloseIfOpen(ws) == IF ws = "open" THEN "closed" ELSE ws

PlivoCloseAi(c) ==
    /\ EventLoopFree
    /\ pp_pc[c] = "closing"
    /\ openai_ws' = [openai_ws EXCEPT ![c] = CloseIfOpen(@)]
    /\ pp_pc' = [pp_pc EXCEPT ![c] = "done"]
    /\ UNCHANGED <<env, stalled, call_data, notified, hm_pc, plivo_ws, to_ai, to_plivo,
                   ai_events, frames, ext, hangups, body_runs, deletes>>

\* A malformed frame (not JSON, no 'event' key, a media frame without its
\* payload): json.loads or the subscript raises inside the "try" that wraps
\* the whole loop, so "except Exception" runs post-call processing and the
\* pump ends; the AI socket is left as it is.
PlivoPumpError(c) ==
    /\ EventLoopFree
    /\ Happens("pump_error")
    /\ PumpReceives(c)
    /\ frames' = Received(frames, c, PlivoFrame("malformed", "", ""))
    /\ \E o \in env.outcomes : after_call_hangup(c, o)
    /\ pp_pc' = [pp_pc EXCEPT ![c] = "done"]
    /\ UNCHANGED <<env, stalled, notified, hm_pc, openai_ws, plivo_ws, to_ai, to_plivo,
                   ai_events>>

(***************************************************************************)
(* receive_from_openai(): one AI-session event.  The whole handler is      *)
(* inside "try ... except Exception": an exception ends the handling of    *)
(* that event and keeps what was done before it.                           *)
(***************************************************************************)
FnCallIds == {"k1"}
Deltas == {<<"a">>, <<"b">>}
Queries == {"bolt M6"}

Emits(type) == type \in env.types

AiPumpReceives(c) ==
    /\ hm_pc[c] = "pumping"
    /\ openai_ws[c] = "open"
    /\ Len(ai_events[c]) < env.max_events

Seen(c, ev) == ai_events' = [ai_events EXCEPT ![c] = Append(@, ev)]

Has(seq, id) == \E i \in 1..Len(seq) : seq[i].item_id = id

First(seq, id) == CHOOSE i \in 1..Len(seq) :
                     /\ seq[i].item_id = id
                     /\ \A j \in 1..(i - 1) : seq[j].item_id # id

\* Mutant of AfterLogging: an error event ends the AI session.
ErrorIsFatal(ws, type) == IF type = "error" THEN "closed" ELSE ws

\* Lines 238-242: the two branches only write a log line.
AfterLogging(ws, type) == ws

\* 'session.updated' and 'error': logged only.
AiLogOnly(c) ==
    /\ EventLoopFree
    /\ AiPumpReceives(c)
    /\ \E t \in {"session.updated", "error"} :
          /\ Emits(t)
          /\ Seen(c, [type |-> t])
          /\ openai_ws' = [openai_ws EXCEPT ![c] = AfterLogging(@, t)]
    /\ UNCHANGED <<env, stalled, call_data, notified, hm_pc, pp_pc, plivo_ws,
                   to_ai, to_plivo, frames, ext, hangups, body_runs, deletes>>

\* A malformed event (not JSON, or a function call without 'arguments'):
\* the exception is caught by the handler's own "except Exception" and the
\* event is skipped.
AiMalformed(c) ==
    /\ EventLoopFree
    /\ AiPumpReceives(c)
    /\ Emits("malformed")
    /\ Seen(c, [type |-> "malformed"])
    /\ UNCHANGED <<env, stalled, call_data, notified, hm_pc, pp_pc, openai_ws, plivo_ws,
                   to_ai, to_plivo, frames, ext, hangups, body_runs, deletes>>

\* 'response.text.delta': create the entry or append to its text.
AddAssistantDelta(responses, id, d, now) ==
    IF ~Has(responses, id)
    THEN Append(responses, [item_id |-> id, text |-> d, timestamp |-> now])
    ELSE [responses EXCEPT ![First(responses, id)].text = @ \o d]

AiTextDelta(c) ==
    /\ EventLoopFree
    /\ AiPumpReceives(c)
    /\ Emits("response.text.delta")
    /\ \E id \in env.items, d \in Deltas :
          /\ Seen(c, [type |-> "response.text.delta", item_id |-> id, delta |-> d])
          /\ call_data' =
                IF c \in DOMAIN call_data
                THEN [call_data EXCEPT ![c].assistant_responses =
                                          AddAssistantDelta(@, id, d, Now(c))]
                ELSE call_data
    /\ UNCHANGED <<env, stalled, notified, hm_pc, pp_pc, openai_ws, plivo_ws, to_ai,
                   to_plivo, frames, ext, hangups, body_runs, deletes>>

\* 'response.audio.delta': base64.b64encode(base64.b64decode(delta)).  The
\* decoder drops characters outside the alphabet, so a payload with a line
\* break in it comes back without it; the bytes are the same.
AudioDeltas == {"p1", "p2", "p1+newline"}

B64Decode(p) == IF p \in {"p1", "p1+newline"} THEN "bytes1" ELSE "bytes2"

B64Encode(b) == IF b = "bytes1" THEN "p1" ELSE "p2"

AiAudioDelta(c) ==
    /\ EventLoopFree
    /\ AiPumpReceives(c)
    /\ Emits("response.audio.delta")
    /\ \E p \in AudioDeltas :
          /\ Seen(c, [type |-> "response.audio.delta", delta |-> p])
          /\ to_plivo' = Send(to_plivo, c,
                              PlivoFrame("playAudio", "", B64Encode(B64Decode(p))))
    /\ UNCHANGED <<env, stalled, call_data, notified, hm_pc, pp_pc, openai_ws, plivo_ws,
                   to_ai, frames, ext, hangups, body_runs, deletes>>

\* Mutant of AddTranscriptionDelta: the delta is put in front of the text.
AddTranscriptionDeltaInFront(trs, id, d) ==
    IF ~Has(trs, id)
    THEN Append(trs, [item_id |-> id, text |-> d, complete |-> FALSE])
    ELSE [trs EXCEPT ![First(trs, id)].text = d \o @]

\* 'conversation.item.input_audio_transcription.delta'
AddTranscriptionDelta(trs, id, d) ==
    IF ~Has(trs, id)
    THEN Append(trs, [item_id |-> id, text |-> d, complete |-> FALSE])
    ELSE [trs EXCEPT ![First(trs, id)].text = @ \o d]

AiTranscriptionDelta(c) ==
    /\ EventLoopFree
    /\ AiPumpReceives(c)
    /\ Emits("transcription.delta")
    /\ \E id \in env.items, d \in Deltas :
          /\ Seen(c, [type |-> "transcription.delta", item_id |-> id, delta |-> d])
          /\ call_data' =
                IF c \in DOMAIN call_data
                THEN [call_data EXCEPT ![c].transcriptions =
                                          AddTranscriptionDelta(@, id, d)]
                ELSE call_data
    /\ UNCHANGED <<env, stalled, notified, hm_pc, pp_pc, openai_ws, plivo_ws, to_ai,
                   to_plivo, frames, ext, hangups, body_runs, deletes>>

\* Mutant of SetTranscription: the completed entry moves to the end.
SetTranscriptionLast(trs, id, full) ==
    Append(SelectSeq(trs, LAMBDA t : t.item_id # id),
           [item_id |-> id, text |-> full, complete |-> TRUE])

\* 'conversation.item.input_audio_transcription.completed': the entry is
\* replaced by the final text, then the role capture of a first-time caller.
SetTranscription(trs, id, full) ==
    IF ~Has(trs, id)
    THEN Append(trs, [item_id |-> id, text |-> full, complete |-> TRUE])
    ELSE [trs EXCEPT ![First(trs, id)] =
                        [item_id |-> id, text |-> full, complete |-> TRUE]]

\* str.lower() on one word.
Lower(w) == IF w = "Contractor" THEN "contractor" ELSE w

\* "'contractor' in lower_transcript"
Mentions(text, key) == \E i \in 1..Len(text) : Lower(text[i]) = key

NamesRole(text) == Mentions(text, "contractor") \/ Mentions(text, "customer")

\* Mutant of RoleIn: "customer" is looked for first.
RoleInCustomerFirst(text) ==
    IF Mentions(text, "customer") THEN "customer" ELSE "contractor"

RoleIn(text) == IF Mentions(text, "contractor") THEN "contractor" ELSE "customer"

\* Mutant of AsksRole: the role-declared flag is not consulted.
AsksRoleAgain(info) == ~info.user_exists

\* "not user_exists and not user_role_set"
AsksRole(info) == ~info.user_exists /\ ~info.user_role_set

\* add_phone_with_role returns one of these statuses.
RegistrationStatuses == {"created", "exists", "error"}

\* Mutant of Registered: the status is not looked at.
RegisteredWhatever(status) == TRUE

Registered(status) == status = "created" \/ status = "exists"

\* openai_ws.send(json.dumps(obj)) delivers the message; openai_ws.send(obj)
\* with the dict itself raises TypeError in websockets' send() and delivers
\* nothing.
SendMapping(log, c, msg) == log

ResponseCreate(instructions) == AiMsg("response.create", "", "", instructions)

AiTranscriptionCompleted(c) ==
    /\ EventLoopFree
    /\ AiPumpReceives(c)
    /\ Emits("transcription.completed")
    /\ \E id \in env.items, full \in env.transcripts, status \in RegistrationStatuses :
          /\ Seen(c, [type |-> "transcription.completed", item_id |-> id,
                      transcript |-> full])
          /\ IF c \notin DOMAIN call_data
             THEN UNCHANGED <<call_data, to_ai, ext>>
             ELSE LET info == call_data[c]
                      stored == [info EXCEPT !.transcriptions =
                                               SetTranscription(@, id, full)]
                  IN  IF AsksRole(info) /\ NamesRole(full)
                      THEN /\ ext' = Append(ext, Ext("add_phone_with_role", c,
                                                     RoleIn(full), status))
                           /\ IF Registered(status)
                              THEN /\ call_data' =
                                        Put(call_data, c,
                                            [stored EXCEPT
                                               !.user_role_set = TRUE,
                                               !.system_message = SYSTEM_MESSAGE])
                                   /\ to_ai' =
                                        SendMapping(
                                          Send(to_ai, c,
                                               AiMsg("session.update", "", "",
                                                     SYSTEM_MESSAGE)),
                                          c,
                                          ResponseCreate([thank |-> RoleIn(full)]))
                              ELSE /\ call_data' = Put(call_data, c, stored)
                                   /\ UNCHANGED to_ai
                      ELSE /\ call_data' = Put(call_data, c, stored)
                           /\ UNCHANGED <<to_ai, ext>>
    /\ UNCHANGED <<env, stalled, notified, hm_pc, pp_pc, openai_ws, plivo_ws, to_plivo,
                   frames, hangups, body_runs, deletes>>

\* 'input_audio_buffer.speech_started': reading plivo_ws.stream_id before a
\* start frame has set it raises AttributeError; the response-cancel is
\* passed to send() as a dict.
AiSpeechStarted(c) ==
    /\ EventLoopFree
    /\ AiPumpReceives(c)
    /\ Emits("speech_started")
    /\ Seen(c, [type |-> "speech_started"])
    /\ IF plivo_ws[c].stream_id = "unset"
       THEN UNCHANGED <<to_plivo, to_ai>>
       ELSE /\ to_plivo' = Send(to_plivo, c,
                                PlivoFrame("clearAudio", plivo_ws[c].stream_id, ""))
            /\ to_ai' = SendMapping(to_ai, c, AiMsg("response.cancel", "", "", ""))
    /\ UNCHANGED <<env, stalled, call_data, notified, hm_pc, pp_pc, openai_ws, plivo_ws,
                   frames, ext, hangups, body_runs, deletes>>

(***************************************************************************)
(* 'response.function_call_arguments.done': the tool dispatcher.  A Python *)
(* value is kept with its kind, so that its truth value can be computed.   *)
(***************************************************************************)
PyNone == [kind |-> "none"]
PyStr(v) == [kind |-> "str", val |-> v]
PyList(v) == [kind |-> "list", val |-> v]
PyDict(v) == [kind |-> "dict", val |-> v]

\* Mutant of Truthy: the "if result:" guard is missing.
AnyResult(r) == TRUE

\* "if result:": None, '' and [] are false; the result dicts have keys.
Truthy(r) ==
    CASE r.kind = "none" -> FALSE
      [] r.kind = "str" -> r.val # ""
      [] r.kind = "list" -> r.val # <<>>
      [] r.kind = "dict" -> TRUE

\* What the collaborators can return.
SearchAnswers == {"", "answer"}
SlotLists == {<<>>, <<"t1">>}
BookingResults == {[error |-> FALSE, htmlLink |-> "link"],
                   [error |-> TRUE, htmlLink |-> ""]}
EmailArgs == {"", "arg@mail"}

\* function_call_output(result, item_id, call_id); json.dumps wraps the result.
JsonDumps(v) == [json |-> v]

function_call_output(result, item_id, call_id) ==
    AiMsg("conversation.item.create", item_id, call_id,
          JsonDumps([result |-> result]))

\* Lines 380-394: the two follow-up messages, sent only for a true result.
Reply(log, c, result, instructions, item_id, call_id) ==
    IF Truthy(result)
    THEN Send(Send(log, c, function_call_output(result, item_id, call_id)),
              c, ResponseCreate(instructions))
    ELSE log

\* Mutant of ResolveEmail: the profile status is not looked at.
ResolveEmailOfAnyProfile(store, c, default) ==
    IF /\ c \in DOMAIN store
       /\ store[c].user_exists
       /\ store[c].user_details # NoDetails
       /\ store[c].user_details.email # ""
    THEN store[c].user_details.email
    ELSE default

\* The email of a booking: the profile email of a known caller whose profile
\* status is success, else the given default.
ResolveEmail(store, c, default) ==
    IF /\ c \in DOMAIN store
       /\ store[c].user_exists
       /\ store[c].user_details # NoDetails
       /\ store[c].user_details.status = "success"
       /\ store[c].user_details.email # ""
    THEN store[c].user_details.email
    ELSE default

\* The functions the dispatcher has a branch for.
FunctionNames ==
    {"search_product_database", "get_available_slots",
     "check_slot_availability", "book_appointment"}

FnEvent(name, id, k, args) ==
    [type |-> "function_call", name |-> name, item_id |-> id, call_id |-> k,
     args |-> args]

\* The collaborator of a tool dispatch for c does not return for a while.
DispatchStalls(c) ==
    /\ env.stalls
    /\ EventLoopFree
    /\ AiPumpReceives(c)
    /\ \E type \in env.types : type \in FunctionNames
    /\ stalled' = c
    /\ UNCHANGED <<env, call_data, notified, hm_pc, pp_pc, openai_ws, plivo_ws,
                   to_ai, to_plivo, ai_events, frames, ext, hangups, body_runs,
                   deletes>>

AiSearch(c) ==
    /\ Returns(c)
    /\ stalled' = "none"
    /\ AiPumpReceives(c)
    /\ Emits("search_product_database")
    /\ \E id \in env.items, k \in FnCallIds, q \in Queries, answer \in SearchAnswers :
          /\ Seen(c, FnEvent("search_product_database", id, k, [query |-> q]))
          /\ ext' = Append(ext, Ext("search_product_database", c, q, answer))
          /\ to_ai' = Reply(to_ai, c, PyStr(answer), "share product information",
                            id, k)
    /\ UNCHANGED <<env, call_data, notified, hm_pc, pp_pc, openai_ws, plivo_ws,
                   to_plivo, frames, hangups, body_runs, deletes>>

AiGetSlots(c) ==
    /\ Returns(c)
    /\ stalled' = "none"
    /\ AiPumpReceives(c)
    /\ Emits("get_available_slots")
    /\ \E id \in env.items, k \in FnCallIds, slots \in SlotLists :
          /\ Seen(c, FnEvent("get_available_slots", id, k, << >>))
          /\ ext' = Append(ext, Ext("get_available_slots_handler", c, "", slots))
          /\ to_ai' = Reply(to_ai, c, PyList(slots), "share available slots", id, k)
    /\ UNCHANGED <<env, call_data, notified, hm_pc, pp_pc, openai_ws, plivo_ws,
                   to_plivo, frames, hangups, body_runs, deletes>>

\* Mutant of CheckResult: the booking outcome is left out of the result.
CheckResultWithoutBooking(availability, t, booking_result) ==
    PyDict([is_available |-> availability, proposed_time |-> t])

\* check_slot_availability: the check is recorded; an available slot is
\* booked at once and the appointment recorded.
CheckResult(availability, t, booking_result) ==
    IF availability
    THEN PyDict([is_available |-> TRUE, proposed_time |-> t,
                 booking_result |-> booking_result])
    ELSE PyDict([is_available |-> FALSE, proposed_time |-> t])

CheckInstructions(availability, t, booking_result) ==
    IF availability
    THEN IF booking_result.error
         THEN [say |-> "available but booking failed", time |-> t]
         ELSE [say |-> "available and booked", time |-> t]
    ELSE [say |-> "not available", time |-> t]

Appointment(t, email, result, id, now) ==
    [timestamp |-> now, proposed_time |-> t, email |-> email, result |-> result,
     item_id |-> id]

\* Mutant of CheckAndBook: the slot is checked but never booked.
CheckOnly(c, t, email, availability, booking_result) ==
    <<Ext("is_slot_available", c, t, availability)>>

\* Lines 303-325: is_slot_available, then at once, with no await in between,
\* book_slot_handler if the slot is available.
CheckAndBook(c, t, email, availability, booking_result) ==
    <<Ext("is_slot_available", c, t, availability)>> \o
    (IF availability
     THEN <<Ext("book_slot_handler", c, [time |-> t, email |-> email],
                booking_result)>>
     ELSE <<>>)

AiCheckSlot(c) ==
    /\ Returns(c)
    /\ stalled' = "none"
    /\ AiPumpReceives(c)
    /\ Emits("check_slot_availability")
    /\ \E id \in env.items, k \in FnCallIds, t \in env.times,
          availability \in BOOLEAN, booking_result \in BookingResults :
          LET args == [proposed_time |-> t]
              email == ResolveEmail(call_data, c, PLACEHOLDER_EMAIL)
              check == [type |-> "check_availability", timestamp |-> Now(c),
                        args |-> args,
                        result |-> [is_available |-> availability,
                                    proposed_time |-> t],
                        item_id |-> id]
          IN  /\ Seen(c, FnEvent("check_slot_availability", id, k, args))
              /\ ext' = ext \o CheckAndBook(c, t, email, availability, booking_result)
              /\ call_data' =
                    IF c \in DOMAIN call_data
                    THEN [call_data EXCEPT
                            ![c].function_calls = Append(@, check),
                            ![c].appointments =
                                IF availability
                                THEN Append(@, Appointment(t, email, booking_result, id, Now(c)))
                                ELSE @]
                    ELSE call_data
              /\ to_ai' = Reply(to_ai, c, CheckResult(availability, t, booking_result),
                                CheckInstructions(availability, t, booking_result),
                                id, k)
    /\ UNCHANGED <<env, notified, hm_pc, pp_pc, openai_ws, plivo_ws, to_plivo,
                   frames, hangups, body_runs, deletes>>

\* book_appointment: args.get('email', placeholder), overridden by the profile.
ArgEmail(e) == IF e = "" THEN PLACEHOLDER_EMAIL ELSE e

BookInstructions(t, result) ==
    IF result.error
    THEN [say |-> "booking failed", time |-> t]
    ELSE [say |-> "booking confirmed", time |-> t]

AiBookAppointment(c) ==
    /\ Returns(c)
    /\ stalled' = "none"
    /\ AiPumpReceives(c)
    /\ Emits("book_appointment")
    /\ \E id \in env.items, k \in FnCallIds, t \in env.times, e \in EmailArgs,
          result \in BookingResults :
          LET email == ResolveEmail(call_data, c, ArgEmail(e))
          IN  /\ Seen(c, FnEvent("book_appointment", id, k,
                                 [proposed_time |-> t, email |-> e]))
              /\ ext' = Append(ext, Ext("book_slot_handler", c,
                                        [time |-> t, email |-> email], result))
              /\ call_data' =
                    IF c \in DOMAIN call_data
                    THEN [call_data EXCEPT ![c].appointments =
                              Append(@, Appointment(t, email, result, id, Now(c)))]
                    ELSE call_data
              /\ to_ai' = Reply(to_ai, c, PyDict(result), BookInstructions(t, result),
                                id, k)
    /\ UNCHANGED <<env, notified, hm_pc, pp_pc, openai_ws, plivo_ws, to_plivo,
                   frames, hangups, body_runs, deletes>>

\* Any other function name: result stays None, nothing is sent.
AiUnknownFunction(c) ==
    /\ EventLoopFree
    /\ AiPumpReceives(c)
    /\ Emits("other")
    /\ \E id \in env.items, k \in FnCallIds :
          /\ Seen(c, FnEvent("other", id, k, << >>))
          /\ to_ai' = Reply(to_ai, c, PyNone, "", id, k)
    /\ UNCHANGED <<env, stalled, call_data, notified, hm_pc, pp_pc, openai_ws, plivo_ws,
                   to_plivo, frames, ext, hangups, body_runs, deletes>>

AiEvent(c) ==
    \/ DispatchStalls(c)
    \/ AiLogOnly(c)
    \/ AiMalformed(c)
    \/ AiTextDelta(c)
    \/ AiAudioDelta(c)
    \/ AiTranscriptionDelta(c)
    \/ AiTranscriptionCompleted(c)
    \/ AiSpeechStarted(c)
    \/ AiSearch(c)
    \/ AiGetSlots(c)
    \/ AiCheckSlot(c)
    \/ AiBookAppointment(c)
    \/ AiUnknownFunction(c)

Next ==
    \E c \in Calls :
        \/ Webhook(c)
        \/ MediaConnect(c)
        \/ OpenAiConnected(c)
        \/ OpenAiConnectFails(c)
        \/ TelephonyDisconnect(c)
        \/ AiCloseOk(c)
        \/ AiCloseError(c)
        \/ HmLoopEnds(c)
        \/ HmConnClosed(c)
        \/ HmJoin(c)
        \/ PlivoMedia(c)
        \/ PlivoStart(c)
        \/ PlivoHangup(c)
        \/ PlivoConnClosed(c)
        \/ PlivoCloseAi(c)
        \/ PlivoPumpError(c)
        \/ AiEvent(c)

Spec == Init /\ [][Next]_vars

(***************************************************************************)
(* Scheduling.  The event loop runs a task that is ready: the handler      *)
(* leaves its "async for" once the AI socket is closed, returns once the   *)
(* pump it awaits has ended, and the pump closes the AI socket after a     *)
(* hang-up.  Nothing obliges the outside world to send anything.           *)
(***************************************************************************)
FairSpec ==
    /\ Spec
    /\ \A c \in Calls :
          /\ WF_vars(HmLoopEnds(c))
          /\ WF_vars(HmConnClosed(c))
          /\ WF_vars(HmJoin(c))
          /\ WF_vars(PlivoCloseAi(c))

(***************************************************************************)
(*                              PROPERTIES                                 *)
(***************************************************************************)
Present(c) == c \in DOMAIN call_data

\* The step is an invocation of after_call_hangup for call c.
HangupStep(c) == hangups'[c] = hangups[c] + 1

\* handle_message is serving the call.
HandlerRunning(c) == hm_pc[c] \in {"connecting", "pumping", "joining"}

\* The telephony pump has ended, or is about to (it only has the AI socket
\* left to close).
PumpEnded(c) == pp_pc[c] \in {"closing", "done"}

(***************************************************************************)
(* C1: for every call id the session record is present from the moment    *)
(* the call is notified (or the media socket connects) until post-call     *)
(* processing has run, absent in every state after that, never deleted     *)
(* twice, and no record of a started call stays in the store forever, also *)
(* when the media socket never connects or the AI socket fails to open: a  *)
(* record outlives the call only while the call's handler is running.      *)
(***************************************************************************)
C1_SessionLifetime ==
    \A c \in Calls :
        /\ []((hangups[c] = 0 /\ (c \in notified \/ hm_pc[c] # "idle")) => Present(c))
        /\ [](hangups[c] > 0 => ~Present(c))
        /\ [](deletes[c] <= 1)
        /\ ([]<>HandlerRunning(c)) \/ (<>[]~Present(c))

(***************************************************************************)
(* C2: whichever close triggers fire and in whatever order, the            *)
(* summarize-and-deliver body of after_call_hangup runs at most once for a *)
(* call.                                                                   *)
(***************************************************************************)
C2_BodyAtMostOnce == \A c \in Calls : body_runs[c] <= 1

\* Two triggers have invoked after_call_hangup and the body has run once.
C2_Witness == \E c \in Calls : hangups[c] >= 2 /\ body_runs[c] = 1

(***************************************************************************)
(* C3: once a socket has closed or a pump has ended on an error while the  *)
(* call was active, the other pump eventually stops receiving and handling *)
(* messages, and the session has been deleted exactly once.                *)
(***************************************************************************)
C3_OtherPumpStops ==
    \A c \in Calls :
        /\ PumpEnded(c) ~> (hm_pc[c] # "pumping")
        /\ (hm_pc[c] = "done") ~> ~PumpReceives(c)
        /\ []((PumpEnded(c) \/ hm_pc[c] = "done") => deletes[c] = 1)

(***************************************************************************)
(* C4: every invocation of after_call_hangup on an existing session leaves *)
(* the session absent from the store, whatever the collaborators do.       *)
(***************************************************************************)
C4_HangupAlwaysCleansUp ==
    [][\A c \in Calls : (HangupStep(c) /\ Present(c)) => c \notin DOMAIN call_data']_vars

\* The body ran, raised before the summary was generated, and the record is
\* gone.
C4_Witness ==
    \E c \in Calls : body_runs[c] = 1 /\ ext = <<>> /\ ~Present(c)

(***************************************************************************)
(* C9: after_call_hangup on a session with no transcription fragment, no   *)
(* assistant text and no tool-call record generates no summary, attempts   *)
(* no delivery (no collaborator is invoked) and deletes the session.       *)
(***************************************************************************)
C9_EmptySessionDiscarded ==
    [][\A c \in Calls :
          ( /\ HangupStep(c)
            /\ Present(c)
            /\ call_data[c].transcriptions = <<>>
            /\ call_data[c].assistant_responses = <<>>
            /\ call_data[c].function_calls = <<>> )
          => ( /\ ext' = ext
               /\ body_runs' = body_runs
               /\ c \notin DOMAIN call_data' )]_vars

\* An empty session has been through after_call_hangup and was deleted.
C9_Witness ==
    \E c \in Calls : deletes[c] = 1 /\ body_runs[c] = 0 /\ ~Present(c)

(***************************************************************************)
(* Steps of the AI pump, recognised by the event they add to ai_events.    *)
(***************************************************************************)
AiStep(c) == Len(ai_events'[c]) = Len(ai_events[c]) + 1

NewEvent(c) == ai_events'[c][Len(ai_events'[c])]

FnStep(c, names) ==
    /\ AiStep(c)
    /\ NewEvent(c).type = "function_call"
    /\ NewEvent(c).name \in names

\* What the step added to a log.
Added(before, after) == SubSeq(after, Len(before) + 1, Len(after))

OfType(seq, type) == SelectSeq(seq, LAMBDA m : m.type = type)

(***************************************************************************)
(* C5: a check_slot_availability call dispatched while the session exists: *)
(* if the scheduling collaborator reports the time available, the slot is  *)
(* booked once, one appointment record is appended and the result sent to  *)
(* the AI session carries is_available = true, the proposed time and the   *)
(* booking result (an error result too); if it reports the time            *)
(* unavailable, nothing is booked, no appointment record is appended and   *)
(* the result carries is_available = false.                                *)
(***************************************************************************)
C5_CheckSlotBooksOnce ==
    [][\A c \in Calls :
          (FnStep(c, {"check_slot_availability"}) /\ Present(c)) =>
          LET t == NewEvent(c).args.proposed_time
              asked == Added(ext, ext')
              booked == SelectSeq(asked, LAMBDA e : e.fn = "book_slot_handler")
              before == call_data[c].appointments
              after == call_data'[c].appointments
              sent == Added(to_ai[c], to_ai'[c])
              result == sent[1].body.json.result
          IN  /\ asked[1].fn = "is_slot_available"
              /\ asked[1].arg = t
              /\ sent[1].type = "conversation.item.create"
              /\ result.kind = "dict"
              /\ result.val.proposed_time = t
              /\ IF asked[1].ret
                 THEN /\ Len(booked) = 1
                      /\ booked[1].arg.time = t
                      /\ after = Append(before, after[Len(after)])
                      /\ after[Len(after)].proposed_time = t
                      /\ after[Len(after)].result = booked[1].ret
                      /\ result.val.is_available = TRUE
                      /\ "booking_result" \in DOMAIN result.val
                      /\ result.val.booking_result = booked[1].ret
                 ELSE /\ Len(booked) = 0
                      /\ after = before
                      /\ result.val.is_available = FALSE]_vars

\* One availability check found the time free, the booking returned an
\* error, and the appointment was recorded all the same.
C5_Witness ==
    \E c \in Calls :
        /\ Present(c)
        /\ Len(ai_events[c]) = 1
        /\ ai_events[c][1].type = "function_call"
        /\ ai_events[c][1].name = "check_slot_availability"
        /\ Len(call_data[c].appointments) = 1
        /\ call_data[c].appointments[1].result.error

(***************************************************************************)
(* C6: the role of a caller is registered at most once per call: after an  *)
(* add_phone_with_role invocation that returned created or exists, the     *)
(* call makes no further add_phone_with_role invocation.                   *)
(***************************************************************************)
Registrations(c) ==
    SelectSeq(ext, LAMBDA e : e.fn = "add_phone_with_role" /\ e.call = c)

C6_RoleRegisteredOnce ==
    \A c \in Calls :
        \A i \in 1..Len(Registrations(c)) :
            Registrations(c)[i].ret \in {"created", "exists"}
                => i = Len(Registrations(c))

\* "Contractor" was registered, and a later completed transcription saying
\* "customer" was handled while the session existed.
C6_Witness ==
    \E c \in Calls :
        /\ Present(c)
        /\ Len(ai_events[c]) = 2
        /\ \A i \in 1..2 : ai_events[c][i].type = "transcription.completed"
        /\ ai_events[c][1].transcript = <<"Contractor">>
        /\ ai_events[c][2].transcript = <<"customer">>
        /\ Len(Registrations(c)) = 1
        /\ Registrations(c)[1].ret = "created"
        /\ Registrations(c)[1].arg = "contractor"

(***************************************************************************)
(* C7: every speech-started event handled by the AI pump, whatever came    *)
(* before it, sends exactly one clear-audio frame for the recorded stream  *)
(* to the telephony socket and delivers exactly one response-cancel        *)
(* message to the AI session.                                              *)
(***************************************************************************)
C7_BargeInClearsAndCancels ==
    \A c \in Calls :
        LET started == Len(OfType(ai_events[c], "speech_started"))
            cleared == SelectSeq(to_plivo[c], LAMBDA f : f.event = "clearAudio")
        IN  /\ Len(cleared) = started
            /\ Len(OfType(to_ai[c], "response.cancel")) = started

(***************************************************************************)
(* C8: for every utterance id the stored fragment text is the              *)
(* concatenation of its deltas in arrival order, for user transcriptions   *)
(* and for assistant text; a transcription-complete event replaces the     *)
(* text accumulated so far by its final text.                              *)
(***************************************************************************)
RECURSIVE Replay(_, _, _, _)
Replay(events, id, delta_type, final_type) ==
    IF events = <<>> THEN <<>>
    ELSE LET e == events[Len(events)]
             earlier == SubSeq(events, 1, Len(events) - 1)
         IN  IF e.type = delta_type /\ e.item_id = id
             THEN Replay(earlier, id, delta_type, final_type) \o e.delta
             ELSE IF e.type = final_type /\ e.item_id = id
                  THEN e.transcript
                  ELSE Replay(earlier, id, delta_type, final_type)

Mentioned(events, id, types) ==
    \E i \in 1..Len(events) : events[i].type \in types /\ events[i].item_id = id

Entries(log, id) == {i \in 1..Len(log) : log[i].item_id = id}

Accumulated(log, events, id, delta_type, final_type) ==
    IF Mentioned(events, id, {delta_type, final_type})
    THEN /\ Cardinality(Entries(log, id)) = 1
         /\ \A i \in Entries(log, id) :
               log[i].text = Replay(events, id, delta_type, final_type)
    ELSE Entries(log, id) = {}

C8_FragmentsAccumulateInOrder ==
    \A c \in Calls :
        Present(c) =>
            \A id \in ItemIds :
                /\ Accumulated(call_data[c].transcriptions, ai_events[c], id,
                               "transcription.delta", "transcription.completed")
                /\ Accumulated(call_data[c].assistant_responses, ai_events[c], id,
                               "response.text.delta", "no final event")

\* Deltas "a" then "b" gave "ab"; the complete event then replaced it.
C8_Witness ==
    \E c \in Calls :
        /\ Present(c)
        /\ Len(ai_events[c]) = 3
        /\ ai_events[c][1] = [type |-> "transcription.delta", item_id |-> "i1",
                              delta |-> <<"a">>]
        /\ ai_events[c][2] = [type |-> "transcription.delta", item_id |-> "i1",
                              delta |-> <<"b">>]
        /\ ai_events[c][3].type = "transcription.completed"
        /\ ai_events[c][3].item_id = "i1"
        /\ call_data[c].transcriptions =
              <<[item_id |-> "i1", text |-> <<"hello">>, complete |-> TRUE]>>

(***************************************************************************)
(* C10: every function-call-arguments-complete event naming one of the     *)
(* four recognized functions, whatever the collaborator returns, sends     *)
(* exactly two messages to the AI session: the function output with the    *)
(* event's call id, then the response-generation trigger.                  *)
(***************************************************************************)
RecognizedFunctions ==
    {"search_product_database", "get_available_slots",
     "check_slot_availability", "book_appointment"}

C10_TwoMessagesPerDispatch ==
    [][\A c \in Calls :
          FnStep(c, RecognizedFunctions) =>
          LET sent == Added(to_ai[c], to_ai'[c])
          IN  /\ Len(sent) = 2
              /\ sent[1].type = "conversation.item.create"
              /\ sent[1].call_id = NewEvent(c).call_id
              /\ sent[2].type = "response.create"]_vars

(***************************************************************************)
(* C11: when post-call processing runs for a known caller's session in     *)
(* which a search_product_database call was dispatched, the transcript it  *)
(* renders has a DATABASE QUERY section for that query and a delivery to   *)
(* the caller's number is attempted.                                       *)
(***************************************************************************)
SearchedFor(c) ==
    {ai_events[c][i].args.query :
        i \in {j \in 1..Len(ai_events[c]) :
                 /\ ai_events[c][j].type = "function_call"
                 /\ ai_events[c][j].name = "search_product_database"}}

DeliveryFunctions == {"send_templated_message", "send_simple_whatsapp"}

C11_SearchIsSummarized ==
    [][\A c \in Calls :
          (/\ HangupStep(c)
           /\ Present(c)
           /\ call_data[c].user_exists
           /\ call_data[c].caller_number = Phone) =>
          \A q \in SearchedFor(c) :
              LET done == Added(ext, ext')
              IN  /\ \E i \in 1..Len(done) :
                        /\ done[i].fn = "generate_inquiry_invoice"
                        /\ \E k \in 1..Len(done[i].arg) :
                              /\ done[i].arg[k].section = "DATABASE QUERY"
                              /\ done[i].arg[k].fields.query = q
                  /\ \E i \in 1..Len(done) :
                        /\ done[i].fn \in DeliveryFunctions
                        /\ done[i].arg = Phone]_vars

(***************************************************************************)
(* C12: a malformed inbound frame is skipped on either pump: the pump that *)
(* received it keeps running, the call stays active and post-call          *)
(* processing is not triggered by it.                                      *)
(***************************************************************************)
MalformedFrameStep(c) ==
    frames'[c] = Append(frames[c], PlivoFrame("malformed", "", ""))

MalformedEventStep(c) == AiStep(c) /\ NewEvent(c).type = "malformed"

C12_MalformedFrameSkipped ==
    [][\A c \in Calls :
          /\ MalformedFrameStep(c) =>
                /\ pp_pc'[c] = "running"
                /\ hangups'[c] = hangups[c]
                /\ call_data' = call_data
          /\ MalformedEventStep(c) =>
                /\ hm_pc'[c] = "pumping"
                /\ openai_ws'[c] = "open"
                /\ hangups'[c] = hangups[c]
                /\ call_data' = call_data]_vars

(***************************************************************************)
(* C13: a function-call event naming an unrecognized function sends        *)
(* nothing to the AI session, calls no collaborator and leaves the session *)
(* store unchanged.                                                        *)
(***************************************************************************)
UnknownFunctionStep(c) ==
    /\ AiStep(c)
    /\ NewEvent(c).type = "function_call"
    /\ NewEvent(c).name \notin RecognizedFunctions

C13_UnknownFunctionIgnored ==
    [][\A c \in Calls :
          UnknownFunctionStep(c) =>
              /\ to_ai' = to_ai
              /\ to_plivo' = to_plivo
              /\ ext' = ext
              /\ call_data' = call_data]_vars

\* An unrecognized function was the only event of a call whose session
\* exists: the AI session was sent its configuration and nothing else.
C13_Witness ==
    \E c \in Calls :
        /\ Present(c)
        /\ Len(ai_events[c]) = 1
        /\ ai_events[c][1].type = "function_call"
        /\ ai_events[c][1].name = "other"
        /\ Len(to_ai[c]) = 1
        /\ ext = <<>>

(***************************************************************************)
(* C14: when the media socket connects for a call that has no session      *)
(* record, a default record is created (caller unknown, no directory       *)
(* entry, role not declared, new-caller instructions, the four logs empty) *)
(* and the relay goes on as for a notified call: the AI session is         *)
(* configured and both pumps run; a record that exists is left unchanged   *)
(* by the connect step.                                                    *)
(***************************************************************************)
ConnectStep(c) == hm_pc[c] = "idle" /\ hm_pc'[c] = "connecting"

C14_DefaultSessionOnConnect ==
    /\ [][\A c \in Calls :
             ConnectStep(c) =>
                IF Present(c)
                THEN call_data' = call_data
                ELSE /\ DOMAIN call_data' = DOMAIN call_data \cup {c}
                     /\ \A d \in DOMAIN call_data : call_data'[d] = call_data[d]
                     /\ call_data'[c] =
                           [caller_number |-> "unknown",
                            transcriptions |-> <<>>,
                            function_calls |-> <<>>,
                            assistant_responses |-> <<>>,
                            appointments |-> <<>>,
                            user_exists |-> FALSE,
                            user_details |-> NoDetails,
                            user_role_set |-> FALSE,
                            system_message |-> NEW_USER_SYSTEM_MESSAGE]]_vars
    /\ [](\A c \in Calls :
             hm_pc[c] = "pumping" =>
                /\ pp_pc[c] # "none"
                /\ Len(to_ai[c]) >= 1
                /\ to_ai[c][1].type = "session.update"
                /\ c \notin notified => to_ai[c][1].body = NEW_USER_SYSTEM_MESSAGE)

\* A call that was never notified is being relayed on its default record:
\* both pumps run and an AI event has been handled.
C14_Witness ==
    \E c \in Calls :
        /\ c \notin notified
        /\ Present(c)
        /\ call_data[c].caller_number = "unknown"
        /\ hm_pc[c] = "pumping"
        /\ pp_pc[c] = "running"
        /\ Len(ai_events[c]) >= 1

(***************************************************************************)
(* C16: each close trigger taken alone (a telephony hang-up frame, the     *)
(* telephony socket closing, the AI socket closing cleanly or abnormally,  *)
(* an unrecoverable error on a pump) eventually leads to post-call         *)
(* processing having been invoked and the session record being absent,     *)
(* with no further event needed from the other socket.                     *)
(***************************************************************************)
AiSocketClosed(c) ==
    hm_pc[c] \in {"pumping", "joining"} /\ openai_ws[c] \in {"closed", "failed"}

TelephonySocketClosed(c) == hm_pc[c] # "idle" /\ ~plivo_ws[c].open

Closed(c) == hangups[c] > 0 /\ ~Present(c)

C16_EveryTriggerCloses ==
    \A c \in Calls :
        (AiSocketClosed(c) \/ PumpEnded(c) \/ TelephonySocketClosed(c)) ~> Closed(c)

(***************************************************************************)
(* C17: post-call processing attempts at most one delivery and never both  *)
(* kinds: the templated delivery when link creation returned a link, the   *)
(* plain-text delivery when it returned none; a delivery that failed is    *)
(* neither retried nor replaced by the other kind, in this run or a later  *)
(* one.                                                                    *)
(***************************************************************************)
DeliveriesIn(log, c) ==
    SelectSeq(log, LAMBDA e : e.fn \in DeliveryFunctions /\ e.call = c)

LinksIn(log, c) ==
    SelectSeq(log, LAMBDA e : e.fn = "upload_text_to_pdf_and_get_short_url"
                              /\ e.call = c)

C17_OneDeliveryOfOneKind ==
    /\ [][\A c \in Calls :
             (HangupStep(c) /\ Present(c)
                /\ CanDeliver(call_data[c].caller_number)) =>
             LET sent == DeliveriesIn(Added(ext, ext'), c)
                 links == LinksIn(Added(ext, ext'), c)
             IN  /\ Len(links) <= 1
                 /\ Len(sent) = Len(links)
                 /\ Len(links) = 1 =>
                       sent[1].fn = IF links[1].ret = "url"
                                    THEN "send_templated_message"
                                    ELSE "send_simple_whatsapp"]_vars
    /\ [](\A c \in Calls : Len(DeliveriesIn(ext, c)) <= 1)

\* The templated delivery failed; a second close trigger ran post-call
\* processing again and nothing more was sent.
C17_Witness ==
    \E c \in Calls :
        /\ hangups[c] >= 2
        /\ Len(DeliveriesIn(ext, c)) = 1
        /\ DeliveriesIn(ext, c)[1].fn = "send_templated_message"
        /\ DeliveriesIn(ext, c)[1].ret = "raise"

(***************************************************************************)
(* C18: when check_slot_availability books a slot, the email given to the  *)
(* scheduling collaborator, and stored in the appointment record, is the   *)
(* caller's profile email if and only if the session exists, its caller is *)
(* in the directory, the profile status is success and the profile email   *)
(* is not empty; in every other case it is the placeholder address.        *)
(***************************************************************************)
FullyRegistered(c) ==
    /\ Present(c)
    /\ call_data[c].user_exists
    /\ call_data[c].user_details.status = "success"
    /\ call_data[c].user_details.email # ""

BestKnownEmail(c) ==
    IF FullyRegistered(c) THEN call_data[c].user_details.email
    ELSE PLACEHOLDER_EMAIL

BookingsIn(log) == SelectSeq(log, LAMBDA e : e.fn = "book_slot_handler")

C18_CheckSlotBookingEmail ==
    [][\A c \in Calls :
          FnStep(c, {"check_slot_availability"}) =>
          LET booked == BookingsIn(Added(ext, ext'))
          IN  Len(booked) = 1 =>
                 /\ booked[1].arg.email = BestKnownEmail(c)
                 /\ Present(c) =>
                       LET appts == call_data'[c].appointments
                       IN  appts[Len(appts)].email = BestKnownEmail(c)]_vars

\* A first-time caller declared a role, then a slot was booked for them
\* under the placeholder address.
C18_Witness ==
    \E c \in Calls :
        /\ Present(c)
        /\ ~call_data[c].user_exists
        /\ call_data[c].user_role_set
        /\ Len(call_data[c].appointments) = 1
        /\ call_data[c].appointments[1].email = PLACEHOLDER_EMAIL
        /\ Len(BookingsIn(ext)) = 1
        /\ BookingsIn(ext)[1].arg.email = PLACEHOLDER_EMAIL

(***************************************************************************)
(* C19: book_appointment resolves the booking email as                     *)
(* check_slot_availability does, whatever email argument the event         *)
(* carries (the profile email for a fully registered caller, otherwise the *)
(* placeholder address), and appends exactly one appointment record per    *)
(* dispatch while the session exists.                                      *)
(***************************************************************************)
C19_BookAppointmentEmail ==
    [][\A c \in Calls :
          FnStep(c, {"book_appointment"}) =>
          LET booked == BookingsIn(Added(ext, ext'))
          IN  /\ Len(booked) = 1
              /\ booked[1].arg.email = BestKnownEmail(c)
              /\ Present(c) =>
                    /\ Len(call_data'[c].appointments) =
                          Len(call_data[c].appointments) + 1
                    /\ call_data'[c].appointments[Len(call_data'[c].appointments)].email
                          = BestKnownEmail(c)]_vars

(***************************************************************************)
(* C20: when role registration returns created or exists, the              *)
(* role-declared flag is set and the active instructions become the        *)
(* standard ones, then a session-configuration update carrying the         *)
(* standard instructions is sent to the AI session, then a                 *)
(* response-generation trigger asking the assistant to thank the caller is *)
(* delivered to it.                                                        *)
(***************************************************************************)
RegistrationStep(c) ==
    /\ AiStep(c)
    /\ Len(Added(ext, ext')) = 1
    /\ Added(ext, ext')[1].fn = "add_phone_with_role"
    /\ Added(ext, ext')[1].ret \in {"created", "exists"}

C20_RoleRegistrationEffects ==
    [][\A c \in Calls :
          RegistrationStep(c) =>
          LET sent == Added(to_ai[c], to_ai'[c])
          IN  /\ call_data'[c].user_role_set
              /\ call_data'[c].system_message = SYSTEM_MESSAGE
              /\ Len(sent) = 2
              /\ sent[1].type = "session.update"
              /\ sent[1].body = SYSTEM_MESSAGE
              /\ sent[2].type = "response.create"]_vars

(***************************************************************************)
(* C15: while the tool dispatch of one call is waiting on a stalled        *)
(* collaborator, the pumps of every other call can still make progress: a  *)
(* telephony frame or an AI event that has arrived for the other call can  *)
(* be processed.                                                           *)
(***************************************************************************)
FrameArrived(d) ==
    PumpReceives(d) /\ env.frames /\ Len(frames[d]) < env.max_frames

EventArrived(d) == AiPumpReceives(d) /\ env.types # {}

C15_OtherCallsProgress ==
    \A c, d \in Calls :
        (stalled = c /\ d # c) =>
            /\ FrameArrived(d) => ENABLED (PlivoMedia(d) \/ PlivoStart(d))
            /\ EventArrived(d) => ENABLED AiEvent(d)

(***************************************************************************)
(* C21: on a transcription-complete event handled while the session        *)
(* exists, the directory-write collaborator is invoked if and only if the  *)
(* caller has no directory entry, the role is not yet declared and the     *)
(* final text contains "contractor" or "customer" in any letter case; the  *)
(* role passed is contractor whenever the text contains "contractor" (also *)
(* next to "customer") and customer otherwise; a caller with a directory   *)
(* entry is never registered.                                              *)
(***************************************************************************)
CompletedStep(c) == AiStep(c) /\ NewEvent(c).type = "transcription.completed"

SaysContractor(text) ==
    \E i \in 1..Len(text) : text[i] \in {"contractor", "Contractor"}

SaysCustomer(text) == \E i \in 1..Len(text) : text[i] = "customer"

C21_RoleCapture ==
    /\ [][\A c \in Calls :
             (CompletedStep(c) /\ Present(c)) =>
             LET text == NewEvent(c).transcript
                 writes == Added(ext, ext')
                 due == /\ ~call_data[c].user_exists
                        /\ ~call_data[c].user_role_set
                        /\ (SaysContractor(text) \/ SaysCustomer(text))
             IN  IF due
                 THEN /\ Len(writes) = 1
                      /\ writes[1].fn = "add_phone_with_role"
                      /\ writes[1].call = c
                      /\ writes[1].arg = IF SaysContractor(text)
                                         THEN "contractor" ELSE "customer"
                 ELSE writes = <<>>]_vars
    /\ [](\A c \in Calls :
             (Present(c) /\ call_data[c].user_exists) => Registrations(c) = <<>>)

\* A first-time caller said both words and was registered as a contractor.
C21_Witness ==
    \E c \in Calls :
        /\ Len(ai_events[c]) = 1
        /\ ai_events[c][1].type = "transcription.completed"
        /\ ai_events[c][1].transcript = <<"customer", "contractor">>
        /\ Len(Registrations(c)) = 1
        /\ Registrations(c)[1].arg = "contractor"

(***************************************************************************)
(* C22: a media frame taken while the AI socket is open is forwarded as    *)
(* exactly one audio-append message carrying the frame's payload unchanged;*)
(* taken while the AI socket is closed it sends nothing, raises nothing,   *)
(* leaves the session as it is and the telephony pump goes on; no          *)
(* audio-append is ever sent on a socket observed closed.                  *)
(***************************************************************************)
MediaStep(c) ==
    /\ Len(frames'[c]) = Len(frames[c]) + 1
    /\ frames'[c][Len(frames'[c])].event = "media"

C22_MediaForwardedOnlyWhenOpen ==
    [][\A c \in Calls :
          MediaStep(c) =>
          LET frame == frames'[c][Len(frames'[c])]
              sent == Added(to_ai[c], to_ai'[c])
          IN  /\ pp_pc'[c] = "running"
              /\ hangups' = hangups
              /\ call_data' = call_data
              /\ IF openai_ws[c] = "open"
                 THEN /\ Len(sent) = 1
                      /\ sent[1].type = "input_audio_buffer.append"
                      /\ sent[1].body = frame.payload
                 ELSE sent = <<>>]_vars

\* The AI socket closed, then two media frames were taken and dropped, and
\* the telephony pump is still running.
C22_Witness ==
    \E c \in Calls :
        /\ openai_ws[c] = "closed"
        /\ Len(frames[c]) = 2
        /\ \A i \in 1..2 : frames[c][i].event = "media"
        /\ OfType(to_ai[c], "input_audio_buffer.append") = <<>>
        /\ pp_pc[c] = "running"
        /\ Present(c)

(***************************************************************************)
(* C23: order is preserved on each socket.  The audio-append messages on   *)
(* the AI socket carry the payloads of the media frames in the order the   *)
(* frames arrived (all of them while the AI socket is open, the frames     *)
(* before the close otherwise), and the play-audio frames on the telephony *)
(* socket carry the audio of the assistant audio deltas in the order the   *)
(* deltas arrived, whatever the interleaving of the two pumps.             *)
(***************************************************************************)
PayloadsOf(log) == [i \in 1..Len(log) |-> log[i].payload]

BodiesOf(log) == [i \in 1..Len(log) |-> log[i].body]

MediaFrames(log) == SelectSeq(log, LAMBDA f : f.event = "media")

PlayAudios(log) == SelectSeq(log, LAMBDA f : f.event = "playAudio")

\* The audio a base64 text stands for: line breaks in it carry no audio.
AudioOf(text) == IF text = "p1+newline" THEN "p1" ELSE text

C23_OrderPreserved ==
    \A c \in Calls :
        LET inbound == PayloadsOf(MediaFrames(frames[c]))
            forwarded == BodiesOf(OfType(to_ai[c], "input_audio_buffer.append"))
            deltas == OfType(ai_events[c], "response.audio.delta")
            played == PayloadsOf(PlayAudios(to_plivo[c]))
        IN  /\ Len(forwarded) <= Len(inbound)
            /\ forwarded = SubSeq(inbound, 1, Len(forwarded))
            /\ openai_ws[c] = "open" => forwarded = inbound
            /\ Len(played) = Len(deltas)
            /\ \A i \in 1..Len(played) : AudioOf(played[i]) = AudioOf(deltas[i].delta)

\* Two different media frames and two different audio deltas went through,
\* a media frame first and an audio delta last.
C23_Witness ==
    \E c \in Calls :
        /\ PayloadsOf(MediaFrames(frames[c])) = <<"p1", "p2">>
        /\ BodiesOf(OfType(to_ai[c], "input_audio_buffer.append")) = <<"p1", "p2">>
        /\ PayloadsOf(PlayAudios(to_plivo[c])) = <<"p2", "p1">>
        /\ Len(ai_events[c]) = 2

(***************************************************************************)
(* C24: a hangup frame is the last frame the telephony pump processes; on  *)
(* it post-call processing is invoked first, with the AI socket still as   *)
(* it was, and afterwards the AI socket is closed if it is still open and  *)
(* the pump ends.                                                          *)
(***************************************************************************)
HangupFrameStep(c) ==
    /\ Len(frames'[c]) = Len(frames[c]) + 1
    /\ frames'[c][Len(frames'[c])].event = "hangup"

AfterHangupFrame(c) ==
    frames[c] # <<>> /\ frames[c][Len(frames[c])].event = "hangup"

C24_HangupStopsPump ==
    /\ [][\A c \in Calls :
             /\ HangupFrameStep(c) =>
                    /\ hangups'[c] = hangups[c] + 1
                    /\ openai_ws'[c] = openai_ws[c]
                    /\ pp_pc'[c] = "closing"
             /\ AfterHangupFrame(c) => frames'[c] = frames[c]
             /\ (pp_pc[c] = "closing" /\ pp_pc'[c] # "closing") =>
                    /\ pp_pc'[c] = "done"
                    /\ openai_ws'[c] = IF openai_ws[c] = "open"
                                       THEN "closed" ELSE openai_ws[c]]_vars
    /\ [](\A c \in Calls :
             /\ AfterHangupFrame(c) =>
                    /\ hangups[c] >= 1
                    /\ pp_pc[c] \in {"closing", "done"}
                    /\ pp_pc[c] = "done" => openai_ws[c] # "open"
             /\ (pp_pc[c] = "closing" /\ EventLoopFree) => ENABLED PlivoCloseAi(c))

\* After a hangup frame that followed a media frame: post-call processing
\* ran, then the AI socket, which was open, was closed and the pump ended.
C24_Witness ==
    \E c \in Calls :
        /\ Len(frames[c]) = 2
        /\ frames[c][1].event = "media"
        /\ AfterHangupFrame(c)
        /\ pp_pc[c] = "done"
        /\ openai_ws[c] = "closed"
        /\ hangups[c] = 1
        /\ hm_pc[c] = "pumping"

(***************************************************************************)
(* C25: the first message sent on the AI socket is the session             *)
(* configuration built from the session's active instructions; no          *)
(* audio-append, function output or response trigger precedes it, and      *)
(* neither pump has processed a frame or an event before it is sent.       *)
(***************************************************************************)
FirstSendStep(c) == to_ai[c] = <<>> /\ to_ai'[c] # <<>>

C25_ConfigurationFirst ==
    /\ [][\A c \in Calls :
             FirstSendStep(c) =>
                 /\ Present(c)
                 /\ Len(to_ai'[c]) = 1
                 /\ to_ai'[c][1].type = "session.update"
                 /\ to_ai'[c][1].body = call_data[c].system_message
                 /\ frames[c] = <<>>
                 /\ ai_events[c] = <<>>
                 /\ pp_pc[c] = "none"]_vars
    /\ [](\A c \in Calls :
             /\ to_ai[c] # <<>> => to_ai[c][1].type = "session.update"
             /\ (frames[c] # <<>> \/ ai_events[c] # <<>> \/ to_plivo[c] # <<>>)
                    => to_ai[c] # <<>>
             /\ \A i \in 2..Len(to_ai[c]) :
                    to_ai[c][i].type \in {"input_audio_buffer.append",
                                          "conversation.item.create",
                                          "response.create", "session.update"})

\* A first-time caller: the configuration with the first-time instructions
\* went out first, then a function call was answered.
C25_Witness ==
    \E c \in Calls :
        /\ Len(to_ai[c]) >= 2
        /\ to_ai[c][1].type = "session.update"
        /\ to_ai[c][1].body = NEW_USER_SYSTEM_MESSAGE
        /\ to_ai[c][2].type = "conversation.item.create"
        /\ ai_events[c] # <<>>

(***************************************************************************)
(* C26: every recognized function call dispatched while the session exists *)
(* appends exactly one record (kind, arguments, result) to the session's   *)
(* tool-call log, so the log has as many records as recognized calls were  *)
(* dispatched.                                                             *)
(***************************************************************************)
DispatchedCalls(c) ==
    SelectSeq(ai_events[c],
              LAMBDA e : e.type = "function_call" /\ e.name \in RecognizedFunctions)

C26_OneRecordPerDispatch ==
    /\ [][\A c \in Calls :
             (FnStep(c, RecognizedFunctions) /\ Present(c)) =>
             LET records == Added(call_data[c].function_calls,
                                  call_data'[c].function_calls)
             IN  /\ Len(records) = 1
                 /\ records[1].args = NewEvent(c).args]_vars
    /\ [](\A c \in Calls :
             Present(c) =>
                 Len(call_data[c].function_calls) = Len(DispatchedCalls(c)))

(***************************************************************************)
(* C27: every availability check recorded in the tool-call log is rendered *)
(* in the transcript as a calendar-query section showing the proposed time *)
(* and the availability that was found.                                    *)
(***************************************************************************)
AvailabilityChecks(info) ==
    SelectSeq(info.function_calls,
              LAMBDA f : f.type \in {"check_availability", "check_slot_availability"})

Rendered(c) ==
    SelectSeq(Added(ext, ext'),
              LAMBDA e : e.fn = "generate_inquiry_invoice" /\ e.call = c)

C27_AvailabilityCheckRendered ==
    [][\A c \in Calls :
          (HangupStep(c) /\ Present(c) /\ Rendered(c) # <<>>) =>
          LET text == Rendered(c)[1].arg
              checks == AvailabilityChecks(call_data[c])
          IN  \A i \in 1..Len(checks) :
                  \E k \in 1..Len(text) :
                      /\ text[k].section = "CALENDAR QUERY"
                      /\ "proposed_time" \in DOMAIN text[k].fields
                      /\ text[k].fields.proposed_time = checks[i].args.proposed_time
                      /\ text[k].fields.available = checks[i].result.is_available]_vars

(***************************************************************************)
(* C28: in a rendered transcript every appointment has a booking section,  *)
(* shown as failed exactly when its result carries an error; the trailing  *)
(* appointment summary lists exactly the appointments without an error,    *)
(* one entry each, in the order of the sorted events, and there is no      *)
(* summary block when no booking succeeded.                                *)
(***************************************************************************)
SectionsNamed(text, heading) == SelectSeq(text, LAMBDA s : s.section = heading)

Succeeded(appointments) == SelectSeq(appointments, LAMBDA a : ~a.result.error)

C28_SummaryListsSuccessfulBookings ==
    [][\A c \in Calls :
          (HangupStep(c) /\ Present(c) /\ Rendered(c) # <<>>) =>
          LET text == Rendered(c)[1].arg
              appts == call_data[c].appointments
              good == Succeeded(appts)
              bookings == SectionsNamed(text, "APPOINTMENT BOOKING")
              summaries == SectionsNamed(text, "APPOINTMENT SUMMARY")
          IN  /\ Len(bookings) = Len(appts)
              /\ \A i \in 1..Len(appts) :
                    /\ bookings[i].fields.time = appts[i].proposed_time
                    /\ bookings[i].fields.booked = ~appts[i].result.error
              /\ IF good = <<>>
                 THEN summaries = <<>>
                 ELSE /\ Len(summaries) = 1
                      /\ text[Len(text)].section = "APPOINTMENT SUMMARY"
                      /\ text[Len(text)].fields.times =
                             [i \in 1..Len(good) |-> good[i].proposed_time]]_vars

\* Three appointments: t2 booked, t1 failed, t1 booked; the summary lists
\* t2 and t1, in that order, and the failed one is shown as failed.
C28_Witness ==
    \E i \in 1..Len(ext) :
        /\ ext[i].fn = "generate_inquiry_invoice"
        /\ LET text == ext[i].arg
               bookings == SectionsNamed(text, "APPOINTMENT BOOKING")
           IN  /\ Len(bookings) = 3
               /\ ~bookings[2].fields.booked
               /\ text[Len(text)].section = "APPOINTMENT SUMMARY"
               /\ text[Len(text)].fields.times = <<"t2", "t1">>

(***************************************************************************)
(* C29: the event sequence post-call processing renders contains every     *)
(* entry of the four session logs exactly once and nothing else, in        *)
(* non-decreasing timestamp order; assistant messages, tool calls and      *)
(* appointments carry the time they were recorded, transcription fragments *)
(* the time of summarization.                                              *)
(***************************************************************************)
EachOnce(events, type, log) ==
    /\ Len(OfType(events, type)) = Len(log)
    /\ \A i \in 1..Len(log) :
          Cardinality({k \in 1..Len(events) :
                          events[k].type = type /\ events[k].data = log[i]}) = 1

C29_EventSequenceSorted ==
    [][\A c \in Calls :
          (HangupStep(c) /\ Present(c)) =>
          LET info == call_data[c]
              events == SortByTimestamp(conversation_events(info, Now(c)))
          IN  /\ EachOnce(events, "user_message", info.transcriptions)
              /\ EachOnce(events, "assistant_message", info.assistant_responses)
              /\ EachOnce(events, "function_call", info.function_calls)
              /\ EachOnce(events, "appointment", info.appointments)
              /\ Len(events) = Len(info.transcriptions)
                               + Len(info.assistant_responses)
                               + Len(info.function_calls)
                               + Len(info.appointments)
              /\ \A k \in 1..Len(events) :
                    /\ k > 1 => events[k - 1].timestamp <= events[k].timestamp
                    /\ events[k].timestamp =
                          IF events[k].type = "user_message"
                          THEN Now(c) ELSE events[k].data.timestamp
              /\ Rendered(c) # <<>> =>
                    Rendered(c)[1].arg = Sections(events) \o AppointmentSummary(events)]_vars

\* The caller spoke first and an appointment was made afterwards; in the
\* rendered transcript the appointment comes before the caller's words.
C29_Witness ==
    \E c \in Calls, i \in 1..Len(ext) :
        /\ Len(ai_events[c]) >= 2
        /\ ai_events[c][1].type = "transcription.completed"
        /\ ext[i].fn = "generate_inquiry_invoice"
        /\ ext[i].call = c
        /\ Len(ext[i].arg) >= 2
        /\ ext[i].arg[1].section = "APPOINTMENT BOOKING"
        /\ ext[i].arg[2].section = "User"

(***************************************************************************)
(* C30, as stated: while the check_slot_availability dispatch of one call  *)
(* is inside the scheduling collaborator, the availability check of        *)
(* another call can be processed, so that both calls can have observed a   *)
(* slot as available before either has booked it.                          *)
(***************************************************************************)
InSchedulingCall(c) == stalled = c /\ Emits("check_slot_availability")

C31_LogOnlyEventsChangeNothing ==
    [][\A c \in Calls :
          (AiStep(c) /\ NewEvent(c).type \in {"session.updated", "error"}) =>
              /\ call_data' = call_data
              /\ to_ai' = to_ai
              /\ to_plivo' = to_plivo
              /\ ext' = ext
              /\ hangups' = hangups
              /\ openai_ws' = openai_ws
              /\ plivo_ws' = plivo_ws
              /\ hm_pc'[c] = "pumping" /\ hm_pc' = hm_pc
              /\ pp_pc' = pp_pc]_vars

\* After an error event the call went on: the next audio delta was relayed
\* and the telephony pump is still running.
C31_Witness ==
    \E c \in Calls :
        /\ Len(ai_events[c]) = 2
        /\ ai_events[c][1].type = "error"
        /\ ai_events[c][2].type = "response.audio.delta"
        /\ PlayAudios(to_plivo[c]) # <<>>
        /\ pp_pc[c] = "running"
        /\ openai_ws[c] = "open"
        /\ Present(c)

(***************************************************************************)
(* C32: a transcription fragment is marked complete exactly once: once its *)
(* completion flag is set it never returns to incomplete, and no later     *)
(* delta or complete event for the same utterance id alters the completed  *)
(* fragment.                                                               *)
(***************************************************************************)
CompletedFragments(c) ==
    {i \in 1..Len(call_data[c].transcriptions) :
        call_data[c].transcriptions[i].complete}

C32_CompletedOnce ==
    [][\A c \in Calls :
          (Present(c) /\ Present(c)') =>
          \A i \in CompletedFragments(c) :
              call_data'[c].transcriptions[i] = call_data[c].transcriptions[i]]_vars

(***************************************************************************)
(* C33: once post-call processing has deleted a call's session, no later   *)
(* AI-session event of that call has an external side effect: no slot is   *)
(* booked with the scheduling collaborator, no role is registered in the   *)
(* directory and no session record is created again for the call.          *)
(***************************************************************************)
C33_NoSideEffectAfterDeletion ==
    [][\A c \in Calls :
          (AiStep(c) /\ deletes[c] >= 1 /\ ~Present(c)) =>
          LET done == Added(ext, ext')
          IN  /\ BookingsIn(done) = <<>>
              /\ \A i \in 1..Len(done) : done[i].fn # "add_phone_with_role"
              /\ ~Present(c)']_vars

(***************************************************************************)
(* C34: when role registration returns an error, the session is unchanged  *)
(* apart from the completed transcription fragment: the role-declared flag *)
(* stays false, the active instructions stay as they were (the new-caller  *)
(* variant), no session-configuration update and no response trigger is    *)
(* sent, and the caller is still asked for the role, so that a later       *)
(* completed transcription with a role keyword registers again.            *)
(***************************************************************************)
RegistrationFailed(c) ==
    /\ CompletedStep(c)
    /\ \E i \in 1..Len(Added(ext, ext')) :
          /\ Added(ext, ext')[i].fn = "add_phone_with_role"
          /\ Added(ext, ext')[i].call = c
          /\ Added(ext, ext')[i].ret = "error"

C34_FailedRegistrationKeepsAsking ==
    [][\A c \in Calls :
          RegistrationFailed(c) =>
              /\ Present(c) /\ Present(c)'
              /\ call_data'[c] =
                    [call_data[c] EXCEPT
                        !.transcriptions = call_data'[c].transcriptions]
              /\ ~call_data'[c].user_role_set
              /\ ~call_data'[c].user_exists
              /\ call_data'[c].system_message = NEW_USER_SYSTEM_MESSAGE
              /\ to_ai' = to_ai
              /\ to_plivo' = to_plivo]_vars

\* The first registration failed, the caller was asked again, and the
\* second one succeeded.
C34_Witness ==
    \E c \in Calls :
        /\ Len(Registrations(c)) = 2
        /\ Registrations(c)[1].ret = "error"
        /\ Registrations(c)[2].ret = "created"
        /\ Present(c)
        /\ call_data[c].user_role_set
        /\ call_data[c].system_message = SYSTEM_MESSAGE

(***************************************************************************)
(* C35: in every state of an existing session the active instructions are  *)
(* the new-caller variant if and only if the caller has no directory entry *)
(* and has not yet declared a role, and the standard variant otherwise;    *)
(* once standard they never return to the new-caller variant.              *)
(***************************************************************************)
C35_InstructionsFollowCallerStatus ==
    /\ [](\A c \in Calls :
             Present(c) =>
                 call_data[c].system_message =
                     IF ~call_data[c].user_exists /\ ~call_data[c].user_role_set
                     THEN NEW_USER_SYSTEM_MESSAGE ELSE SYSTEM_MESSAGE)
    /\ [][\A c \in Calls :
             (/\ Present(c) /\ Present(c)'
              /\ call_data[c].system_message = SYSTEM_MESSAGE) =>
                 call_data'[c].system_message = SYSTEM_MESSAGE]_vars

\* A first-time caller was configured with the new-caller instructions and,
\* after declaring a role, has the standard ones; two more events later
\* they are still the standard ones.
C35_Witness ==
    \E c \in Calls :
        /\ Present(c)
        /\ to_ai[c] # <<>>
        /\ to_ai[c][1].body = NEW_USER_SYSTEM_MESSAGE
        /\ ~call_data[c].user_exists
        /\ call_data[c].user_role_set
        /\ call_data[c].system_message = SYSTEM_MESSAGE
        /\ Len(ai_events[c]) = 3
        /\ ai_events[c][1].type = "transcription.completed"
        /\ Len(Registrations(c)) = 1
        /\ Registrations(c)[1].ret \in {"created", "exists"}

(***************************************************************************)
(* C36: the rendered transcript does not keep the dialogue order for user  *)
(* speech: every user message comes after every assistant message,         *)
(* tool-call section and appointment section of the call, and the user     *)
(* messages are among themselves in the order in which their utterance ids *)
(* were first seen.                                                        *)
(***************************************************************************)
\* The utterance ids of the transcription events, each at its first mention.
RECURSIVE FirstSeen(_)
FirstSeen(events) ==
    IF events = <<>> THEN <<>>
    ELSE LET earlier == SubSeq(events, 1, Len(events) - 1)
             e == events[Len(events)]
             types == {"transcription.delta", "transcription.completed"}
         IN  IF e.type \in types /\ ~Mentioned(earlier, e.item_id, types)
             THEN Append(FirstSeen(earlier), e.item_id)
             ELSE FirstSeen(earlier)

RecordedSections ==
    {"Assistant", "DATABASE QUERY", "CALENDAR QUERY", "APPOINTMENT BOOKING"}

C36_UserSpeechRenderedLast ==
    [][\A c \in Calls :
          (HangupStep(c) /\ Present(c) /\ Rendered(c) # <<>>) =>
          LET text == Rendered(c)[1].arg
              spoken == call_data[c].transcriptions
              users == SectionsNamed(text, "User")
          IN  /\ \A i, j \in 1..Len(text) :
                    (text[i].section = "User" /\ text[j].section \in RecordedSections)
                        => j < i
              /\ [i \in 1..Len(spoken) |-> spoken[i].item_id] = FirstSeen(ai_events[c])
              /\ Len(users) = Len(spoken)
              /\ \A i \in 1..Len(users) : users[i].fields.text = spoken[i].text]_vars

\* The caller said "hello", the assistant answered, the caller said
\* "customer": the transcript shows the answer first, then both utterances.
C36_Witness ==
    \E c \in Calls, i \in 1..Len(ext) :
        /\ Len(ai_events[c]) = 3
        /\ ai_events[c][1].type = "transcription.completed"
        /\ ai_events[c][1].item_id = "i2"
        /\ ai_events[c][2].type = "response.text.delta"
        /\ ai_events[c][3].type = "transcription.completed"
        /\ ai_events[c][3].item_id = "i1"
        /\ ext[i].fn = "generate_inquiry_invoice"
        /\ ext[i].call = c
        /\ Len(ext[i].arg) = 3
        /\ ext[i].arg[1].section = "Assistant"
        /\ ext[i].arg[2] = Section("User", [text |-> <<"hello">>])
        /\ ext[i].arg[3] = Section("User", [text |-> <<"customer">>])

(***************************************************************************)
(* C37: a session whose only recorded items are appointments (made through *)
(* book_appointment, with no transcription fragment, no assistant text and *)
(* no tool-call record) is treated as empty by post-call processing: no    *)
(* summary is generated and no delivery is attempted, although an          *)
(* appointment was booked; the session is deleted.                         *)
(***************************************************************************)
OnlyAppointments(info) ==
    /\ info.appointments # <<>>
    /\ info.transcriptions = <<>>
    /\ info.assistant_responses = <<>>
    /\ info.function_calls = <<>>

C37_BookedButTreatedAsEmpty ==
    [][\A c \in Calls :
          (HangupStep(c) /\ Present(c) /\ OnlyAppointments(call_data[c])) =>
              /\ Added(ext, ext') = <<>>
              /\ body_runs'[c] = body_runs[c]
              /\ ~Present(c)'
              /\ deletes'[c] = deletes[c] + 1]_vars

\* A slot was booked through book_appointment for a known caller; the call
\* ended and nothing was rendered or delivered.
C37_Witness ==
    \E c \in Calls :
        /\ hangups[c] = 1
        /\ deletes[c] = 1
        /\ ~Present(c)
        /\ Len(ai_events[c]) = 1
        /\ ai_events[c][1].type = "function_call"
        /\ ai_events[c][1].name = "book_appointment"
        /\ Len(ext) = 1
        /\ ext[1].fn = "book_slot_handler"
        /\ ext[1].call = c
        /\ ~ext[1].ret.error
        /\ ext[1].arg.email = ProfileEmail

(***************************************************************************)
(* C38: for a session whose caller identifier is unknown (the session      *)
(* synthesized on socket connect, or a notification without a caller       *)
(* number), post-call processing never attempts a templated or plain-text  *)
(* delivery, whatever was recorded during the call, and still deletes the  *)
(* session.                                                                *)
(***************************************************************************)
UnknownCaller(c) == Present(c) /\ call_data[c].caller_number = "unknown"

C38_UnknownCallerNoDelivery ==
    /\ [][\A c \in Calls :
             (HangupStep(c) /\ UnknownCaller(c)) =>
                 /\ DeliveriesIn(Added(ext, ext'), c) = <<>>
                 /\ LinksIn(Added(ext, ext'), c) = <<>>
                 /\ ~Present(c)'
                 /\ deletes'[c] = deletes[c] + 1]_vars
    /\ [](\A c \in Calls :
             (c \notin notified /\ Present(c)) => UnknownCaller(c))

\* A call that was never notified: its synthesized session recorded
\* assistant text, the summary was generated, and nothing was delivered.
C38_Witness ==
    \E c \in Calls :
        /\ c \notin notified
        /\ hangups[c] = 1
        /\ deletes[c] = 1
        /\ ~Present(c)
        /\ ai_events[c] # <<>>
        /\ Len(ext) = 1
        /\ ext[1].fn = "generate_inquiry_invoice"
        /\ ext[1].call = c
        /\ ext[1].arg # <<>>

====
